---- MODULE Spec2Model ----
(***************************************************************************)
(* Model of fnzip/dayu-sch: the round orchestrator of batchproxyplay.Run   *)
(* (internal/pkg/app/batchproxyplay/main.go, the Run with graceful         *)
(* shutdown, lines 342-717), the per-unit session it drives through the    *)
(* pragmatic client, and the yarun directory calls it makes.               *)
(*                                                                         *)
(* Processes: the main loop of Run, the signal goroutine, one worker       *)
(* goroutine per acquired proxy, one goroutine per returned batch unit.    *)
(* Every network call is two steps: the call (the request is put on the    *)
(* wire, or refused at once when the call's context is already done) and   *)
(* its return (the reply, or an error).  A call that returns after its     *)
(* context was cancelled returns an error.  Code between two accesses to   *)
(* shared state or the network is one step.                                *)
(***************************************************************************)
EXTENDS Integers, Sequences, FiniteSets, TLC

\* ---------------------------------------------------------------- bounds
\* -max-concurrent: the ceiling N of Run (maxConcurrent).
MaxConcurrent == 2
\* -batch-limit: the most units one batch-claim call returns (batchLimit).
BatchLimit == 1
\* The directory may hand back more leases than were asked for.
MaxProxies == MaxConcurrent + 1
\* Length of the userAgents list in the model (the list of the source is longer).
NumUserAgents == 2
\* Largest index/counter value a reply carries in the session specification.
MaxClock == 2
\* Largest batch in the classification specification.
ClassifyMaxTotal == 10

\* Units of the one batch of the batch specification.
BatchSize == 2

Workers == 1..MaxProxies
Units == 1..BatchSize

\* ------------------------------------------------------------- variables
VARIABLES
  rootCtxDone,      \* rootCtx is cancelled (rootCancel was called)
  mainPc,           \* position of Run's main loop
  fetchOutcome,     \* how the last GetProxies call ended
  proxiesResp,      \* len(proxiesResp.Proxies) of the round
  spawnI,           \* i of the worker-spawning loop
  sem,              \* permits of the round's semaphore in use
  wg,               \* counter of the round's WaitGroup
  userAgentIndex,   \* the rotation cursor
  wpc,              \* position of each worker goroutine
  batchOutcome,     \* per worker: how GetBatchLink ended
  ua,               \* the list position the last GetNextUserAgent call returned (-1: no call yet)
  responses,        \* per worker: the units GetBatchLink returned
  failedCount,      \* per worker: the atomic failure counter
  shouldBlockProxy, \* per worker
  responseWg,       \* per worker: counter of responseWg
  responseSem,      \* per worker: permits of responseSem in use
  blockCalls,       \* workers whose BlockProxy request reached the directory this round
  blockOutcome,     \* per worker: how its BlockProxy call ended ("none": no call ended)
  upc,              \* position of each per-unit goroutine
  sess,             \* per unit: index, counter, initResData, the last request sent,
                    \* whether the last reply lacked an expected field, and the
                    \* amount of the iteration (0 outside its scope)
  updateCalls,      \* UpdateUserBalance requests that reached the directory this round
  unitLog,          \* per unit: the line its goroutine logged when it ended
  single,           \* proxycheck: one checkSingleProxy call (its inputs, position,
                    \* the URL results so far and the UnblockProxy calls it made)
  dd,               \* dupdel: DupDel.Run (the users collection, currentIndex, the
                    \* user and duplicateIDs of the iteration, how it ended)
  cyc,              \* proxycheck: main and its CheckProxies cycles
  chk               \* checker: one CheckDomains call

vars == <<rootCtxDone, mainPc, fetchOutcome, proxiesResp, spawnI, sem, wg,
          userAgentIndex, wpc, batchOutcome, ua, responses, failedCount,
          shouldBlockProxy, responseWg, responseSem, blockCalls, blockOutcome, upc, sess,
          updateCalls, unitLog, single, dd, cyc, chk>>

\* The variables of the other commands of the repository (proxycheck, dupdel,
\* checker), which Run does not touch.
toolVars == <<single, dd, cyc, chk>>

mainVars == <<mainPc, fetchOutcome, proxiesResp, spawnI>>
workerVars == <<wpc, batchOutcome, ua, responses, failedCount, shouldBlockProxy,
                responseWg, responseSem, blockCalls, blockOutcome>>
unitVars == <<upc, sess, updateCalls, unitLog>>

\* ------------------------------------------------------------- contexts
\* ctx.Err() of a context made by context.WithTimeout(rootCtx, ...): deadline
\* says its timer fired first, cancelled that its cancel function or rootCancel
\* has been called.
CtxErr(deadline, cancelled) ==
  IF deadline THEN "DeadlineExceeded"
  ELSE IF cancelled THEN "Canceled" ELSE "nil"

\* Lines 414-419: cancel() is called on line 416, before line 419 reads ctx.Err().
FetchCtxErr(outcome) == CtxErr(outcome = "deadline", TRUE)

WorkerCtxErrAfterCancel(outcome) == CtxErr(outcome = "deadline", TRUE)

\* Lines 474-491: the worker's cancel is deferred, so ctx.Err() on line 491 is
\* non-nil only for the deadline or a cancelled rootCtx.
WorkerCtxErr(outcome) == CtxErr(outcome = "deadline", rootCtxDone)

\* ------------------------------------------------------------ directory
\* How a call to the directory or to the batch service can end while its
\* context is live; once the context is cancelled the call returns its error.
FetchOutcomes == {"ok", "transportErr", "deadline", "non2xx"}
CallOutcomes == {"ok", "err", "deadline"}

\* yarun.GetProxies: the error it returns.  A reply that is not a success state
\* returns resp.Err, which is nil when the HTTP exchange itself succeeded.
GetProxiesErr(outcome) ==
  IF outcome \in {"transportErr", "deadline", "canceled"} THEN "err" ELSE "nil"

\* yarun.GetProxies: whether the *GetProxiesResponse it returns is nil.
GetProxiesNil(outcome) == outcome # "ok"

\* ------------------------------------------------------------- ceiling
\* The ceiling as Run applies it: the spawning loop stops at i >= maxConcurrent
\* and the semaphore made by NewWeighted(maxConcurrent) admits a holder while
\* fewer than maxConcurrent permits are in use.
WithinCeilingOffByOne(count) == count <= MaxConcurrent

WithinCeiling(count) == count < MaxConcurrent

\* ------------------------------------------------------ classification
\* Lines 661-677: failureRate := failed/total (only when total > 0) and
\* failureRate >= 0.5, compared as fractions: failed/total >= 5/10.
ShouldQuarantineStrict(total, failed) ==
  total > 0 /\ failed * 10 > 5 * total

ShouldQuarantine(total, failed) ==
  total > 0 /\ failed * 10 >= 5 * total

\* --------------------------------------------------------------- units
\* A unit as GetBatchLink returns it: status, and whether it carries a link.
UnitRec == [status : BOOLEAN, link : BOOLEAN]
BatchReplies == UNION {[1..n -> UnitRec] : n \in 0..BatchLimit}

NoData == [Index |-> 0, Counter |-> 0, Balance |-> 0, TotalWin |-> 0, NextAction |-> ""]
NoReq == [kind |-> "none", index |-> 0, counter |-> 0, c |-> 0]
NoSess == [index |-> 0, counter |-> 0, data |-> NoData, req |-> NoReq, absent |-> FALSE,
           amount |-> 0]

\* ------------------------------------------------- the other commands
\* proxycheck: no checkSingleProxy call under way.
NoSingle == [pc |-> "none", ctxDone |-> FALSE, parseOk |-> TRUE, ip |-> "",
             currentIP |-> "", i |-> 0, seen |-> <<>>, calls |-> <<>>, err |-> ""]

\* dupdel: DupDel.Run not started.
NoUser == [id |-> 0, app_code |-> "", username |-> ""]

NoDupDel == [pc |-> "none", ctxDone |-> FALSE, initial |-> {}, users |-> {},
             currentIndex |-> 0, user |-> NoUser, duplicateIDs |-> <<>>,
             totalDeleted |-> 0, failed |-> FALSE, ended |-> ""]

\* proxycheck: main not started.
NoCycle == [pc |-> "none", ctxDone |-> FALSE, tick |-> FALSE, cycles |-> 0,
            n |-> 0, i |-> 0, sem |-> 0, wg |-> 0, checking |-> 0, released |-> 0,
            ret |-> "", lateStarts |-> 0]

\* checker: CheckDomains not called.
NoCheck == [pc |-> "none", workers |-> 0, domains |-> <<>>, spawned |-> 0, sent |-> 0,
            jobs |-> <<>>, jobsClosed |-> FALSE, results |-> <<>>,
            resultsClosed |-> FALSE, wg |-> 0, wk |-> <<>>, waiter |-> "none",
            allResults |-> <<>>, checks |-> 0]

\* None of the other commands is running.
ToolsIdle ==
  /\ single = NoSingle
  /\ dd = NoDupDel
  /\ cyc = NoCycle
  /\ chk = NoCheck

\* ---------------------------------------------------------------- Init
Init ==
  /\ rootCtxDone = FALSE
  /\ mainPc = "loopCheck"
  /\ fetchOutcome = "none"
  /\ proxiesResp = 0
  /\ spawnI = 0
  /\ sem = 0
  /\ wg = 0
  /\ userAgentIndex = 0
  /\ wpc = [w \in Workers |-> "idle"]
  /\ batchOutcome = [w \in Workers |-> "none"]
  /\ ua = -1
  /\ responses = [w \in Workers |-> <<>>]
  /\ failedCount = [w \in Workers |-> 0]
  /\ shouldBlockProxy = [w \in Workers |-> FALSE]
  /\ responseWg = [w \in Workers |-> 0]
  /\ responseSem = [w \in Workers |-> 0]
  /\ blockCalls = {}
  /\ blockOutcome = [w \in Workers |-> "none"]
  /\ upc = [w \in Workers |-> [u \in Units |-> "none"]]
  /\ sess = [w \in Workers |-> [u \in Units |-> NoSess]]
  /\ updateCalls = {}
  /\ unitLog = [w \in Workers |-> [u \in Units |-> ""]]
  /\ ToolsIdle

\* Run has not started: the state of Init for the variables of Run.
RunIdle ==
  /\ rootCtxDone = FALSE
  /\ mainPc = "loopCheck"
  /\ fetchOutcome = "none"
  /\ proxiesResp = 0
  /\ spawnI = 0
  /\ sem = 0
  /\ wg = 0
  /\ userAgentIndex = 0
  /\ wpc = [w \in Workers |-> "idle"]
  /\ batchOutcome = [w \in Workers |-> "none"]
  /\ ua = -1
  /\ responses = [w \in Workers |-> <<>>]
  /\ failedCount = [w \in Workers |-> 0]
  /\ shouldBlockProxy = [w \in Workers |-> FALSE]
  /\ responseWg = [w \in Workers |-> 0]
  /\ responseSem = [w \in Workers |-> 0]
  /\ blockCalls = {}
  /\ blockOutcome = [w \in Workers |-> "none"]
  /\ upc = [w \in Workers |-> [u \in Units |-> "none"]]
  /\ sess = [w \in Workers |-> [u \in Units |-> NoSess]]
  /\ updateCalls = {}
  /\ unitLog = [w \in Workers |-> [u \in Units |-> ""]]

\* ------------------------------------------------------ signal handler
\* Lines 352-356: the signal goroutine cancels rootCtx.  A signal reaches a
\* running process only.
Shutdown ==
  /\ ~rootCtxDone
  /\ mainPc \notin {"returned", "panicked"}
  /\ rootCtxDone' = TRUE
  /\ UNCHANGED <<toolVars, mainVars, sem, wg, userAgentIndex, workerVars, unitVars>>

\* ----------------------------------------------------------- main loop
\* Lines 403-409: the shutdown check at the top of a round.
MainLoopCheck ==
  /\ mainPc = "loopCheck"
  /\ mainPc' = IF rootCtxDone THEN "returned" ELSE "getProxies"
  /\ UNCHANGED <<toolVars, rootCtxDone, fetchOutcome, proxiesResp, spawnI, sem, wg,
                 userAgentIndex, workerVars, unitVars>>

\* Line 415: GetProxies is called with a context derived from rootCtx.  With
\* rootCtx done no request is sent: the call fails at once, and lines 418-421
\* return.
MainCallGetProxies ==
  /\ mainPc = "getProxies"
  /\ IF rootCtxDone
       THEN /\ fetchOutcome' = "canceled"
            /\ mainPc' = "returned"
       ELSE /\ fetchOutcome' = "none"
            /\ mainPc' = "getProxiesWait"
  /\ UNCHANGED <<toolVars, rootCtxDone, proxiesResp, spawnI, sem, wg, userAgentIndex,
                 workerVars, unitVars>>

MainGetProxiesReturnNoEmptyCheck ==
  /\ mainPc = "getProxiesWait"
  /\ \E out \in (IF rootCtxDone THEN {"canceled"} ELSE FetchOutcomes),
        n \in 0..MaxProxies :
       /\ fetchOutcome' = out
       /\ IF GetProxiesErr(out) # "nil"
            THEN /\ mainPc' = IF FetchCtxErr(out) = "Canceled"
                                THEN "returned" ELSE "fetchErrDelay"
                 /\ UNCHANGED <<proxiesResp, spawnI, sem, wg, workerVars, unitVars>>
            ELSE IF GetProxiesNil(out)
            THEN /\ mainPc' = "panicked"
                 /\ UNCHANGED <<proxiesResp, spawnI, sem, wg, workerVars, unitVars>>
            ELSE /\ mainPc' = "spawn"
                 /\ proxiesResp' = n
                 /\ spawnI' = 0
                 /\ sem' = 0
                 /\ wg' = 0
                 /\ wpc' = [w \in Workers |-> "idle"]
                 /\ batchOutcome' = [w \in Workers |-> "none"]
                 /\ UNCHANGED ua
                 /\ responses' = [w \in Workers |-> <<>>]
                 /\ failedCount' = [w \in Workers |-> 0]
                 /\ shouldBlockProxy' = [w \in Workers |-> FALSE]
                 /\ responseWg' = [w \in Workers |-> 0]
                 /\ responseSem' = [w \in Workers |-> 0]
                 /\ blockCalls' = {}
                 /\ blockOutcome' = [w \in Workers |-> "none"]
                 /\ upc' = [w \in Workers |-> [u \in Units |-> "none"]]
                 /\ sess' = [w \in Workers |-> [u \in Units |-> NoSess]]
                 /\ updateCalls' = {}
                 /\ unitLog' = [w \in Workers |-> [u \in Units |-> ""]]
  /\ UNCHANGED <<toolVars, rootCtxDone, userAgentIndex>>

\* Lines 415-452: GetProxies returns, and Run acts on (proxiesResp, err).
\* A new round's semaphore, WaitGroup and goroutines replace the last round's.
MainGetProxiesReturn ==
  /\ mainPc = "getProxiesWait"
  /\ \E out \in (IF rootCtxDone THEN {"canceled"} ELSE FetchOutcomes),
        n \in 0..MaxProxies :
       /\ fetchOutcome' = out
       /\ IF GetProxiesErr(out) # "nil"
            THEN /\ mainPc' = IF FetchCtxErr(out) = "Canceled"
                                THEN "returned" ELSE "fetchErrDelay"
                 /\ UNCHANGED <<proxiesResp, spawnI, sem, wg, workerVars, unitVars>>
            ELSE IF GetProxiesNil(out)
            THEN /\ mainPc' = "panicked"
                 /\ UNCHANGED <<proxiesResp, spawnI, sem, wg, workerVars, unitVars>>
            ELSE IF n = 0
            THEN /\ mainPc' = "emptyDelay"
                 /\ proxiesResp' = 0
                 /\ UNCHANGED <<spawnI, sem, wg, workerVars, unitVars>>
            ELSE /\ mainPc' = "spawn"
                 /\ proxiesResp' = n
                 /\ spawnI' = 0
                 /\ sem' = 0
                 /\ wg' = 0
                 /\ wpc' = [w \in Workers |-> "idle"]
                 /\ batchOutcome' = [w \in Workers |-> "none"]
                 /\ UNCHANGED ua
                 /\ responses' = [w \in Workers |-> <<>>]
                 /\ failedCount' = [w \in Workers |-> 0]
                 /\ shouldBlockProxy' = [w \in Workers |-> FALSE]
                 /\ responseWg' = [w \in Workers |-> 0]
                 /\ responseSem' = [w \in Workers |-> 0]
                 /\ blockCalls' = {}
                 /\ blockOutcome' = [w \in Workers |-> "none"]
                 /\ upc' = [w \in Workers |-> [u \in Units |-> "none"]]
                 /\ sess' = [w \in Workers |-> [u \in Units |-> NoSess]]
                 /\ updateCalls' = {}
                 /\ unitLog' = [w \in Workers |-> [u \in Units |-> ""]]
  /\ UNCHANGED <<toolVars, rootCtxDone, userAgentIndex>>

\* Lines 426-431, 439-444, 710-715: select on rootCtx.Done() and the delay timer.
MainDelay ==
  /\ mainPc \in {"fetchErrDelay", "emptyDelay", "roundDelay"}
  /\ \/ rootCtxDone /\ mainPc' = "returned"
     \/ mainPc' = "loopCheck"
  /\ UNCHANGED <<toolVars, rootCtxDone, fetchOutcome, proxiesResp, spawnI, sem, wg,
                 userAgentIndex, workerVars, unitVars>>

MainSpawnNoAdd ==
  /\ mainPc = "spawn"
  /\ IF spawnI < proxiesResp /\ WithinCeiling(spawnI)
       THEN /\ wg' = wg
            /\ wpc' = [wpc EXCEPT ![spawnI + 1] = "acquire"]
            /\ spawnI' = spawnI + 1
            /\ UNCHANGED mainPc
       ELSE /\ mainPc' = "wgWait"
            /\ UNCHANGED <<wg, wpc, spawnI>>
  /\ UNCHANGED <<toolVars, rootCtxDone, fetchOutcome, proxiesResp, sem, userAgentIndex,
                 batchOutcome, ua, responses, failedCount, shouldBlockProxy,
                 responseWg, responseSem, blockCalls, blockOutcome, unitVars>>

MainSpawnSharedProxy ==
  /\ mainPc = "spawn"
  /\ IF spawnI < proxiesResp /\ WithinCeiling(spawnI)
       THEN /\ wg' = wg + 1
            /\ wpc' = [wpc EXCEPT ![IF spawnI = 0 THEN 1 ELSE spawnI] = "acquire"]
            /\ spawnI' = spawnI + 1
            /\ UNCHANGED mainPc
       ELSE /\ mainPc' = "wgWait"
            /\ UNCHANGED <<wg, wpc, spawnI>>
  /\ UNCHANGED <<toolVars, rootCtxDone, fetchOutcome, proxiesResp, sem, userAgentIndex,
                 batchOutcome, ua, responses, failedCount, shouldBlockProxy,
                 responseWg, responseSem, blockCalls, blockOutcome, unitVars>>

\* Lines 455-461 and 702: one iteration of the spawning loop.
MainSpawn ==
  /\ mainPc = "spawn"
  /\ IF spawnI < proxiesResp /\ WithinCeiling(spawnI)
       THEN /\ wg' = wg + 1
            /\ wpc' = [wpc EXCEPT ![spawnI + 1] = "acquire"]
            /\ spawnI' = spawnI + 1
            /\ UNCHANGED mainPc
       ELSE /\ mainPc' = "wgWait"
            /\ UNCHANGED <<wg, wpc, spawnI>>
  /\ UNCHANGED <<toolVars, rootCtxDone, fetchOutcome, proxiesResp, sem, userAgentIndex,
                 batchOutcome, ua, responses, failedCount, shouldBlockProxy,
                 responseWg, responseSem, blockCalls, blockOutcome, unitVars>>

MainWaitNoBarrier ==
  /\ mainPc = "wgWait"
  /\ mainPc' = "roundDelay"
  /\ UNCHANGED <<toolVars, rootCtxDone, fetchOutcome, proxiesResp, spawnI, sem, wg,
                 userAgentIndex, workerVars, unitVars>>

\* Lines 704-707: the round barrier.
MainWait ==
  /\ mainPc = "wgWait"
  /\ wg = 0
  /\ mainPc' = "roundDelay"
  /\ UNCHANGED <<toolVars, rootCtxDone, fetchOutcome, proxiesResp, spawnI, sem, wg,
                 userAgentIndex, workerVars, unitVars>>

Main ==
  \/ MainLoopCheck
  \/ MainCallGetProxies
  \/ MainGetProxiesReturn
  \/ MainDelay
  \/ MainSpawn
  \/ MainWait

\* -------------------------------------------------------------- workers
WorkerExitNoRelease(w) ==
  /\ wpc' = [wpc EXCEPT ![w] = "done"]
  /\ sem' = IF rootCtxDone THEN sem ELSE sem - 1
  /\ wg' = wg - 1

\* The deferred sem.Release(1) (line 469) and wg.Done() (line 462) of a worker
\* that returns after it acquired its permit.
WorkerExit(w) ==
  /\ wpc' = [wpc EXCEPT ![w] = "done"]
  /\ sem' = sem - 1
  /\ wg' = wg - 1

\* Lines 464-469: sem.Acquire(context.Background(), 1) blocks until a permit is free.
WorkerAcquire(w) ==
  /\ wpc[w] = "acquire"
  /\ WithinCeiling(sem)
  /\ sem' = sem + 1
  /\ wpc' = [wpc EXCEPT ![w] = "callBatch"]
  /\ UNCHANGED <<toolVars, rootCtxDone, mainVars, wg, userAgentIndex, batchOutcome, ua,
                 responses, failedCount, shouldBlockProxy, responseWg,
                 responseSem, blockCalls, blockOutcome, unitVars>>

\* Lines 903-915 (GetNextUserAgent): the cursor after one call.
NextUserAgentIndex(i) == (i + 1) % NumUserAgents

GetNextUserAgentNoLock ==
  /\ ua' = userAgentIndex
  /\ userAgentIndex' \in {userAgentIndex, NextUserAgentIndex(userAgentIndex)}

GetNextUserAgentPreIncrement ==
  /\ userAgentIndex' = NextUserAgentIndex(userAgentIndex)
  /\ ua' = userAgentIndex'

\* Lines 908-915 (GetNextUserAgent), under userAgentMutex: the caller gets the
\* entry at the cursor and the cursor advances.
GetNextUserAgent ==
  /\ ua' = userAgentIndex
  /\ userAgentIndex' = NextUserAgentIndex(userAgentIndex)

\* Lines 474-494: the worker takes its user agent and calls GetBatchLink with a
\* context derived from rootCtx.  With rootCtx done no request is sent, the
\* call fails at once and the worker returns (lines 491-494).
WorkerCallBatch(w) ==
  /\ wpc[w] = "callBatch"
  /\ GetNextUserAgent
  /\ IF rootCtxDone
       THEN /\ batchOutcome' = [batchOutcome EXCEPT ![w] = "canceled"]
            /\ WorkerExit(w)
       ELSE /\ wpc' = [wpc EXCEPT ![w] = "batchWait"]
            /\ UNCHANGED <<sem, wg, batchOutcome>>
  /\ UNCHANGED <<toolVars, rootCtxDone, mainVars, responses, failedCount,
                 shouldBlockProxy, responseWg, responseSem, blockCalls, blockOutcome, unitVars>>

\* Lines 487-513 and 652-653: GetBatchLink returns.  On an error the worker
\* returns (shutdown) or marks its proxy; on success it starts one goroutine
\* per returned unit.
WorkerBatchReturn(w) ==
  /\ wpc[w] = "batchWait"
  /\ \E out \in (IF rootCtxDone THEN {"canceled"} ELSE CallOutcomes),
        r \in BatchReplies :
       /\ batchOutcome' = [batchOutcome EXCEPT ![w] = out]
       /\ IF out # "ok"
            THEN IF WorkerCtxErr(out) = "Canceled"
                   THEN /\ WorkerExit(w)
                        /\ UNCHANGED <<shouldBlockProxy, responses, responseWg, upc>>
                   ELSE /\ shouldBlockProxy' = [shouldBlockProxy EXCEPT ![w] = TRUE]
                        /\ wpc' = [wpc EXCEPT ![w] = "block"]
                        /\ UNCHANGED <<sem, wg, responses, responseWg, upc>>
            ELSE /\ responses' = [responses EXCEPT ![w] = r]
                 /\ responseWg' = [responseWg EXCEPT ![w] = Len(r)]
                 /\ upc' = [upc EXCEPT ![w] =
                              [u \in Units |-> IF u <= Len(r) THEN "start" ELSE "none"]]
                 /\ wpc' = [wpc EXCEPT ![w] = "respWait"]
                 /\ UNCHANGED <<sem, wg, shouldBlockProxy>>
  /\ UNCHANGED <<toolVars, rootCtxDone, mainVars, userAgentIndex, ua, failedCount,
                 responseSem, blockCalls, blockOutcome, sess, updateCalls, unitLog>>

WorkerClassifyCountsSessions(w) ==
  /\ wpc[w] = "respWait"
  /\ responseWg[w] = 0
  /\ LET q == ShouldQuarantine(Len(responses[w]),
                               failedCount[w]
                                 + Cardinality({u \in Units : unitLog[w][u] # ""})) IN
       /\ shouldBlockProxy' = [shouldBlockProxy EXCEPT ![w] = q]
       /\ IF q
            THEN /\ wpc' = [wpc EXCEPT ![w] = "block"]
                 /\ UNCHANGED <<sem, wg>>
            ELSE WorkerExit(w)
  /\ UNCHANGED <<toolVars, rootCtxDone, mainVars, userAgentIndex, batchOutcome, ua, responses,
                 failedCount, responseWg, responseSem, blockCalls, blockOutcome, unitVars>>

WorkerClassifyNoWait(w) ==
  /\ wpc[w] = "respWait"
  /\ LET q == ShouldQuarantine(Len(responses[w]), failedCount[w]) IN
       /\ shouldBlockProxy' = [shouldBlockProxy EXCEPT ![w] = q]
       /\ IF q
            THEN /\ wpc' = [wpc EXCEPT ![w] = "block"]
                 /\ UNCHANGED <<sem, wg>>
            ELSE WorkerExit(w)
  /\ UNCHANGED <<toolVars, rootCtxDone, mainVars, userAgentIndex, batchOutcome, ua, responses,
                 failedCount, responseWg, responseSem, blockCalls, blockOutcome, unitVars>>

\* Lines 655-681: responseWg.Wait(), then the failure-rate classification.
WorkerClassify(w) ==
  /\ wpc[w] = "respWait"
  /\ responseWg[w] = 0
  /\ LET q == ShouldQuarantine(Len(responses[w]), failedCount[w]) IN
       /\ shouldBlockProxy' = [shouldBlockProxy EXCEPT ![w] = q]
       /\ IF q
            THEN /\ wpc' = [wpc EXCEPT ![w] = "block"]
                 /\ UNCHANGED <<sem, wg>>
            ELSE WorkerExit(w)
  /\ UNCHANGED <<toolVars, rootCtxDone, mainVars, userAgentIndex, batchOutcome, ua, responses,
                 failedCount, responseWg, responseSem, blockCalls, blockOutcome, unitVars>>

\* Lines 681-690: BlockProxy is called with a context derived from rootCtx.
WorkerCallBlock(w) ==
  /\ wpc[w] = "block"
  /\ IF rootCtxDone
       THEN /\ blockOutcome' = [blockOutcome EXCEPT ![w] = "canceled"]
            /\ WorkerExit(w)
            /\ UNCHANGED blockCalls
       ELSE /\ blockCalls' = blockCalls \cup {w}
            /\ wpc' = [wpc EXCEPT ![w] = "blockWait"]
            /\ UNCHANGED <<sem, wg, blockOutcome>>
  /\ UNCHANGED <<toolVars, rootCtxDone, mainVars, userAgentIndex, batchOutcome, ua, responses,
                 failedCount, shouldBlockProxy, responseWg, responseSem, unitVars>>

WorkerBlockReturnRetry(w) ==
  /\ wpc[w] = "blockWait"
  /\ \E out \in (IF rootCtxDone THEN {"canceled"} ELSE FetchOutcomes) :
       /\ blockOutcome' = [blockOutcome EXCEPT ![w] = out]
       /\ IF out = "deadline"
            THEN /\ wpc' = [wpc EXCEPT ![w] = "block"]
                 /\ UNCHANGED <<sem, wg>>
            ELSE WorkerExit(w)
  /\ UNCHANGED <<toolVars, rootCtxDone, mainVars, userAgentIndex, batchOutcome, ua, responses,
                 failedCount, shouldBlockProxy, responseWg, responseSem,
                 blockCalls, unitVars>>

\* Lines 683-701: BlockProxy returns (the outcomes of a directory call are
\* those of GetProxies); every outcome is logged only, and the worker returns.
WorkerBlockReturn(w) ==
  /\ wpc[w] = "blockWait"
  /\ \E out \in (IF rootCtxDone THEN {"canceled"} ELSE FetchOutcomes) :
       blockOutcome' = [blockOutcome EXCEPT ![w] = out]
  /\ WorkerExit(w)
  /\ UNCHANGED <<toolVars, rootCtxDone, mainVars, userAgentIndex, batchOutcome, ua, responses,
                 failedCount, shouldBlockProxy, responseWg, responseSem,
                 blockCalls, unitVars>>

Worker(w) ==
  \/ WorkerAcquire(w)
  \/ WorkerCallBatch(w)
  \/ WorkerBatchReturn(w)
  \/ WorkerClassify(w)
  \/ WorkerCallBlock(w)
  \/ WorkerBlockReturn(w)

\* ------------------------------------------------------- reply parsing
\* A reply body is a flat key=value text; each field is <<v>> when the key is
\* there with a value the pattern matches, and <<>> when it is not.
\* getInt, getFloat, getString of ParseResponseData: the zero value when the
\* pattern does not match.
getInt(field) == IF Len(field) > 0 THEN field[1] ELSE 0
getFloat(field) == IF Len(field) > 0 THEN field[1] ELSE 0
getString(field) == IF Len(field) > 0 THEN field[1] ELSE ""

\* Whether a reply body lacks one of the fields ParseResponseData reads.
LacksField(body) ==
  \E f \in {"index", "counter", "balance", "tw", "na"} : Len(body[f]) = 0

\* pragmatic.ParseResponseData: it never fails.
ParseResponseData(body) ==
  [Index |-> getInt(body.index),
   Counter |-> getInt(body.counter),
   Balance |-> getFloat(body.balance),
   TotalWin |-> getFloat(body.tw),
   NextAction |-> getString(body.na)]

\* Replies of the game service in the round specification.
RoundBodies ==
  [index : {<<1>>}, counter : {<<1>>}, balance : {<<300>>, <<20000>>},
   tw : {<<0>>}, na : {<<"s">>, <<"c">>, <<>>}]

\* Replies of the game service in the session specification.
ClockFields == {<<>>} \cup {<<i>> : i \in 0..MaxClock}
BalanceValues == {300, 500, 501, 10000, 10001, 30000, 30001, 35000, 50000, 50001,
                  99999, 100000, 100500}
SessionBodies ==
  [index : ClockFields, counter : ClockFields,
   balance : {<<>>} \cup {<<b>> : b \in BalanceValues},
   tw : {<<0>>}, na : {<<"s">>, <<"c">>, <<"x">>, <<>>}]

\* Replies of the game service at the edges of the balance band.
BoundaryBodies ==
  [index : {<<1>>}, counter : {<<1>>},
   balance : {<<500>>, <<501>>, <<99999>>, <<100000>>},
   tw : {<<0>>}, na : {<<"s">>, <<"c">>, <<"x">>, <<>>}]

\* ------------------------------------------------------------- session
ThresholdReachedExclusive(d) ==
  d.NextAction = "s" /\ (d.Balance < 500 \/ d.Balance > 100000)

ThresholdReachedAnyAction(d) ==
  d.Balance <= 500 \/ d.Balance >= 100000

\* Line 580: the balance band outside which a session stops.
ThresholdReached(d) ==
  d.NextAction = "s" /\ (d.Balance <= 500 \/ d.Balance >= 100000)

AmountClosedBelow(balance) ==
  IF balance >= 10000 /\ balance < 30000 THEN 600
  ELSE IF balance >= 30000 /\ balance < 50000 THEN 800
  ELSE IF balance >= 50000 /\ balance < 100000 THEN 1000
  ELSE 400

AmountSwapped(balance) ==
  IF balance > 10000 /\ balance <= 30000 THEN 800
  ELSE IF balance > 30000 /\ balance <= 50000 THEN 600
  ELSE IF balance > 50000 /\ balance <= 100000 THEN 1000
  ELSE 400

\* Lines 604-612: the wager for a balance.
Amount(balance) ==
  IF balance > 10000 /\ balance <= 30000 THEN 600
  ELSE IF balance > 30000 /\ balance <= 50000 THEN 800
  ELSE IF balance > 50000 /\ balance <= 100000 THEN 1000
  ELSE 400

\* Line 614: coinValue := int(amount / 20.0).
CoinValue(balance) == Amount(balance) \div 20

\* Lines 603-615: past the threshold check every iteration computes amount
\* from initResData.Balance; the local is dead once the iteration's requests
\* have been answered.
WithAmount(ss) == [ss EXCEPT !.amount = Amount(ss.data.Balance)]

\* Lines 562-565, 624-630, 640-646: the state after a successful reply:
\* index and counter are the reply's plus one, initResData is the reply.
AfterReplyStale(ss, d) ==
  [ss EXCEPT !.data = d]

AfterReply(ss, d) ==
  [ss EXCEPT !.index = d.Index + 1, !.counter = d.Counter + 1, !.data = d]

\* The deferred responseWg.Done() (line 514) and, when the permit of
\* responseSem was taken, responseSem.Release(1) (line 532); the goroutine's
\* locals are gone.  line is what the goroutine logged on its way out.
UnitExit(w, u, held, line) ==
  /\ upc' = [upc EXCEPT ![w][u] = "done"]
  /\ unitLog' = [unitLog EXCEPT ![w][u] = line]
  /\ sess' = [sess EXCEPT ![w][u] = NoSess]
  /\ responseWg' = [responseWg EXCEPT ![w] = @ - 1]
  /\ responseSem' = [responseSem EXCEPT ![w] = IF held THEN @ - 1 ELSE @]

UnitGoto(w, u, pc) ==
  /\ upc' = [upc EXCEPT ![w][u] = pc]
  /\ UNCHANGED <<responseWg, responseSem, unitLog>>

\* Lines 516-541: the shutdown check, responseSem.Acquire(rootCtx, 1), the
\* failure count, and the test for a session link.
UnitStart(w, u) ==
  /\ upc[w][u] = "start"
  /\ IF rootCtxDone
       THEN /\ UnitExit(w, u, FALSE, "")
            /\ UNCHANGED failedCount
       ELSE /\ responseSem[w] < Len(responses[w])
            /\ failedCount' = [failedCount EXCEPT ![w] =
                                 IF responses[w][u].status THEN @ ELSE @ + 1]
            /\ IF responses[w][u].link
                 THEN /\ upc' = [upc EXCEPT ![w][u] = "load"]
                      /\ responseSem' = [responseSem EXCEPT ![w] = @ + 1]
                      /\ UNCHANGED <<sess, responseWg, unitLog>>
                 ELSE UnitExit(w, u, FALSE, "")
  /\ UNCHANGED <<toolVars, rootCtxDone, mainVars, sem, wg, userAgentIndex, wpc,
                 batchOutcome, ua, responses, shouldBlockProxy, blockCalls, blockOutcome, updateCalls>>

UnitSendBackground(w, u, request, pc, line) ==
  /\ sess' = [sess EXCEPT ![w][u].req = request]
  /\ UnitGoto(w, u, pc)

\* A request of the pragmatic client: SetContext(pp.ctx) with pp.ctx = rootCtx
\* (line 543).  With rootCtx done the request is not sent and the call returns
\* an error, on which the goroutine returns.
UnitSend(w, u, request, pc, line) ==
  IF rootCtxDone
    THEN UnitExit(w, u, TRUE, line)
    ELSE /\ sess' = [sess EXCEPT ![w][u].req = request]
         /\ UnitGoto(w, u, pc)

\* Lines 545 and part_001 47-53: LoadSession sends the establish request.
UnitLoadSession(w, u) ==
  /\ upc[w][u] = "load"
  /\ UnitSend(w, u, [kind |-> "load", index |-> 0, counter |-> 0, c |-> 0], "loadWait",
              "error on load game")
  /\ UNCHANGED <<toolVars, rootCtxDone, mainVars, sem, wg, userAgentIndex, wpc,
                 batchOutcome, ua, responses, failedCount, shouldBlockProxy,
                 blockCalls, blockOutcome, updateCalls>>

UnitLoadReturnRetry(w, u) ==
  /\ upc[w][u] = "loadWait"
  /\ \E out \in (IF rootCtxDone THEN {"err"} ELSE {"redirect", "noRedirect", "err"}) :
       IF out = "redirect"
         THEN /\ UnitGoto(w, u, "init")
              /\ UNCHANGED sess
         ELSE IF out = "err" /\ ~rootCtxDone
         THEN /\ UnitGoto(w, u, "load")
              /\ UNCHANGED sess
         ELSE UnitExit(w, u, TRUE, IF out = "err" THEN "error on load game"
                                   ELSE "error on load game: sessionData is nil")
  /\ UNCHANGED <<toolVars, rootCtxDone, mainVars, sem, wg, userAgentIndex, wpc,
                 batchOutcome, ua, responses, failedCount, shouldBlockProxy,
                 blockCalls, blockOutcome, updateCalls>>

\* Lines 545-554 and part_001 55-74: LoadSession returns an error, no session
\* (no location header) or the session key.
UnitLoadReturn(w, u) ==
  /\ upc[w][u] = "loadWait"
  /\ \E out \in (IF rootCtxDone THEN {"err"} ELSE {"redirect", "noRedirect", "err"}) :
       IF out = "redirect"
         THEN /\ UnitGoto(w, u, "init")
              /\ UNCHANGED sess
         ELSE UnitExit(w, u, TRUE, IF out = "err" THEN "error on load game"
                                   ELSE "error on load game: sessionData is nil")
  /\ UNCHANGED <<toolVars, rootCtxDone, mainVars, sem, wg, userAgentIndex, wpc,
                 batchOutcome, ua, responses, failedCount, shouldBlockProxy,
                 blockCalls, blockOutcome, updateCalls>>

\* Line 556 and part_001 77-93: DoInit sends index=1, counter=1.
UnitDoInit(w, u) ==
  /\ upc[w][u] = "init"
  /\ UnitSend(w, u, [kind |-> "doInit", index |-> 1, counter |-> 1, c |-> 0], "initWait",
              "error on init game")
  /\ UNCHANGED <<toolVars, rootCtxDone, mainVars, sem, wg, userAgentIndex, wpc,
                 batchOutcome, ua, responses, failedCount, shouldBlockProxy,
                 blockCalls, blockOutcome, updateCalls>>

\* Where the goroutine goes after a reply: into the game loop after doInit
\* (line 570), to the collect of the same iteration or to the pacing delay after
\* doSpin (lines 633, 649), to the pacing delay after doCollect (line 649).
PcLoop(d) == "loop"
PcAfterSpin(d) == IF d.NextAction = "c" THEN "collect" ELSE "sleep"
PcSleep(d) == "sleep"
PcAfter(kind, d) ==
  IF kind = "doInit" THEN PcLoop(d)
  ELSE IF kind = "doSpin" THEN PcAfterSpin(d)
  ELSE PcSleep(d)

\* A protocol call returns: an error ends the goroutine, a reply is parsed and
\* becomes the session's state.
UnitReply(w, u, Bodies, kind, line) ==
  \/ UnitExit(w, u, TRUE, line)
  \/ /\ ~rootCtxDone
     /\ \E b \in Bodies :
          LET d == ParseResponseData(b) IN
            /\ sess' = [sess EXCEPT ![w][u] =
                          [AfterReply(@, d) EXCEPT !.absent = LacksField(b),
                                                   !.amount = 0]]
            /\ UnitGoto(w, u, PcAfter(kind, d))

\* Lines 556-567: DoInit returns.
UnitInitReturn(w, u, Bodies) ==
  /\ upc[w][u] = "initWait"
  /\ UnitReply(w, u, Bodies, "doInit", "error on init game")
  /\ UNCHANGED <<toolVars, rootCtxDone, mainVars, sem, wg, userAgentIndex, wpc,
                 batchOutcome, ua, responses, failedCount, shouldBlockProxy,
                 blockCalls, blockOutcome, updateCalls>>

\* Lines 570-617 and 633: the top of the game loop: the shutdown check, the
\* threshold check, and the choice of the next request by initResData.NextAction.
LoopTarget(d) ==
  IF ThresholdReached(d) THEN "update"
  ELSE IF d.NextAction = "s" THEN "spin"
  ELSE IF d.NextAction = "c" THEN "collect"
  ELSE "sleep"

UnitLoopNoShutdownCheck(w, u) ==
  /\ upc[w][u] = "loop"
  /\ UnitGoto(w, u, LoopTarget(sess[w][u].data))
  /\ sess' = [sess EXCEPT ![w][u] =
                IF ThresholdReached(@.data) THEN @ ELSE WithAmount(@)]
  /\ UNCHANGED <<toolVars, rootCtxDone, mainVars, sem, wg, userAgentIndex, wpc,
                 batchOutcome, ua, responses, failedCount, shouldBlockProxy,
                 blockCalls, blockOutcome, updateCalls>>

UnitLoop(w, u) ==
  /\ upc[w][u] = "loop"
  /\ IF rootCtxDone
       THEN UnitExit(w, u, TRUE, "Shutdown requested, stopping game loop")
       ELSE /\ UnitGoto(w, u, LoopTarget(sess[w][u].data))
            /\ sess' = [sess EXCEPT ![w][u] =
                          IF ThresholdReached(@.data) THEN @ ELSE WithAmount(@)]
  /\ UNCHANGED <<toolVars, rootCtxDone, mainVars, sem, wg, userAgentIndex, wpc,
                 batchOutcome, ua, responses, failedCount, shouldBlockProxy,
                 blockCalls, blockOutcome, updateCalls>>

\* How many UpdateUserBalance requests of unit u of worker w reached the directory.
UpdatesOf(w, u) == Cardinality({c \in updateCalls : c.w = w /\ c.u = u})

\* Lines 588-589: UpdateUserBalance with the unit's id and the balance.
UnitUpdateBalance(w, u) ==
  /\ upc[w][u] = "update"
  /\ UnitSend(w, u, [kind |-> "updateBalance", index |-> 0, counter |-> 0, c |-> 0],
              "updateWait", "Update balance cancelled due to shutdown")
  /\ updateCalls' = IF rootCtxDone THEN updateCalls
                    ELSE updateCalls \cup
                           {[w |-> w, u |-> u, balance |-> sess[w][u].data.Balance,
                             n |-> UpdatesOf(w, u) + 1]}
  /\ UNCHANGED <<toolVars, rootCtxDone, mainVars, sem, wg, userAgentIndex, wpc,
                 batchOutcome, ua, responses, failedCount, shouldBlockProxy, blockCalls, blockOutcome>>

\* yarun.UpdateUserBalance returns (response, nil), or (nil, err) on a
\* transport error, the deadline or a cancelled context, or (nil, resp.Err),
\* with resp.Err nil, on a reply that is not a success state.
UpdateOutcomes == {"ok", "transportErr", "deadline", "non2xx"}

\* Lines 590-600: the line logged after UpdateUserBalance returned.
\* updateCancel() on line 590 precedes updateCtx.Err() on line 592.
UpdateLine(out) ==
  IF GetProxiesErr(out) = "nil" THEN "threshold reached, stopping loop"
  ELSE IF CtxErr(out = "deadline", TRUE) = "Canceled"
    THEN "Update balance cancelled due to shutdown"
    ELSE "error on update user balance"

UnitUpdateReturnRetry(w, u) ==
  /\ upc[w][u] = "updateWait"
  /\ \E out \in (IF rootCtxDone THEN {"canceled"} ELSE UpdateOutcomes) :
       IF GetProxiesErr(out) = "nil" \/ rootCtxDone
         THEN UnitExit(w, u, TRUE, UpdateLine(out))
         ELSE UnitGoto(w, u, "update")
  /\ UNCHANGED <<toolVars, rootCtxDone, mainVars, sem, wg, userAgentIndex, wpc,
                 batchOutcome, ua, responses, failedCount, shouldBlockProxy,
                 blockCalls, blockOutcome, sess, updateCalls>>

\* Lines 589-600: UpdateUserBalance returns; the goroutine ends either way
\* (return on an error, break and the end of the function on success).
UnitUpdateReturn(w, u) ==
  /\ upc[w][u] = "updateWait"
  /\ \E out \in (IF rootCtxDone THEN {"canceled"} ELSE UpdateOutcomes) :
       UnitExit(w, u, TRUE, UpdateLine(out))
  /\ UNCHANGED <<toolVars, rootCtxDone, mainVars, sem, wg, userAgentIndex, wpc,
                 batchOutcome, ua, responses, failedCount, shouldBlockProxy,
                 blockCalls, blockOutcome, updateCalls>>

\* Lines 617-618: DoSpin with the wager and the current index and counter.
UnitDoSpin(w, u) ==
  /\ upc[w][u] = "spin"
  /\ UnitSend(w, u, [kind |-> "doSpin", index |-> sess[w][u].index,
                     counter |-> sess[w][u].counter,
                     c |-> CoinValue(sess[w][u].data.Balance)], "spinWait",
              "error on spin game")
  /\ UNCHANGED <<toolVars, rootCtxDone, mainVars, sem, wg, userAgentIndex, wpc,
                 batchOutcome, ua, responses, failedCount, shouldBlockProxy,
                 blockCalls, blockOutcome, updateCalls>>

UnitSpinReturnRetry(w, u, Bodies) ==
  /\ upc[w][u] = "spinWait"
  /\ \/ /\ ~rootCtxDone
        /\ unitLog' = [unitLog EXCEPT ![w][u] = "error on spin game"]
        /\ upc' = [upc EXCEPT ![w][u] = "spin"]
        /\ UNCHANGED <<sess, responseWg, responseSem>>
     \/ UnitReply(w, u, Bodies, "doSpin", "error on spin game")
  /\ UNCHANGED <<toolVars, rootCtxDone, mainVars, sem, wg, userAgentIndex, wpc,
                 batchOutcome, ua, responses, failedCount, shouldBlockProxy,
                 blockCalls, blockOutcome, updateCalls>>

\* Lines 618-633: DoSpin returns; a reply asking for a collect is followed by
\* DoCollect in the same iteration.
UnitSpinReturn(w, u, Bodies) ==
  /\ upc[w][u] = "spinWait"
  /\ UnitReply(w, u, Bodies, "doSpin", "error on spin game")
  /\ UNCHANGED <<toolVars, rootCtxDone, mainVars, sem, wg, userAgentIndex, wpc,
                 batchOutcome, ua, responses, failedCount, shouldBlockProxy,
                 blockCalls, blockOutcome, updateCalls>>

\* Lines 633-634: DoCollect with the current index and counter.
UnitDoCollect(w, u) ==
  /\ upc[w][u] = "collect"
  /\ UnitSend(w, u, [kind |-> "doCollect", index |-> sess[w][u].index,
                     counter |-> sess[w][u].counter, c |-> 0], "collectWait",
              "error on collect")
  /\ UNCHANGED <<toolVars, rootCtxDone, mainVars, sem, wg, userAgentIndex, wpc,
                 batchOutcome, ua, responses, failedCount, shouldBlockProxy,
                 blockCalls, blockOutcome, updateCalls>>

\* Lines 634-647: DoCollect returns.
UnitCollectReturn(w, u, Bodies) ==
  /\ upc[w][u] = "collectWait"
  /\ UnitReply(w, u, Bodies, "doCollect", "error on collect")
  /\ UNCHANGED <<toolVars, rootCtxDone, mainVars, sem, wg, userAgentIndex, wpc,
                 batchOutcome, ua, responses, failedCount, shouldBlockProxy,
                 blockCalls, blockOutcome, updateCalls>>

\* Line 649: the pacing delay, then the next iteration.
UnitSleep(w, u) ==
  /\ upc[w][u] = "sleep"
  /\ UnitGoto(w, u, "loop")
  /\ sess' = [sess EXCEPT ![w][u].amount = 0]
  /\ UNCHANGED <<toolVars, rootCtxDone, mainVars, sem, wg, userAgentIndex, wpc,
                 batchOutcome, ua, responses, failedCount, shouldBlockProxy,
                 blockCalls, blockOutcome, updateCalls>>

Unit(w, u, Bodies) ==
  \/ UnitStart(w, u)
  \/ UnitLoadSession(w, u)
  \/ UnitLoadReturn(w, u)
  \/ UnitDoInit(w, u)
  \/ UnitInitReturn(w, u, Bodies)
  \/ UnitLoop(w, u)
  \/ UnitUpdateBalance(w, u)
  \/ UnitUpdateReturn(w, u)
  \/ UnitDoSpin(w, u)
  \/ UnitSpinReturn(w, u, Bodies)
  \/ UnitDoCollect(w, u)
  \/ UnitCollectReturn(w, u, Bodies)
  \/ UnitSleep(w, u)

\* ---------------------------------------------- the sequential variant
\* The Run without graceful shutdown (lines 29-309): its worker goes through
\* the returned units one after the other, in the worker goroutine itself, with
\* the worker's context (120 s) on every call.  A call and its return are one
\* step.  A `return` in the unit loop is the worker's.
Pending(w) == {u \in 1..Len(responses[w]) : upc[w][u] = "pending"}

\* `return` inside the unit loop: the worker goroutine ends (deferred
\* sem.Release and wg.Done), whatever units are left.
SeqReturn(w, u, line) ==
  /\ upc' = [upc EXCEPT ![w][u] = "done"]
  /\ unitLog' = [unitLog EXCEPT ![w][u] = line]
  /\ sess' = [sess EXCEPT ![w][u] = NoSess]
  /\ WorkerExit(w)

\* `break` out of the game loop (line 206): the unit loop goes on.
SeqBreak(w, u, line) ==
  /\ upc' = [upc EXCEPT ![w][u] = "done"]
  /\ unitLog' = [unitLog EXCEPT ![w][u] = line]
  /\ sess' = [sess EXCEPT ![w][u] = NoSess]
  /\ wpc' = [wpc EXCEPT ![w] = "seqLoop"]
  /\ UNCHANGED <<sem, wg>>

SeqGoto(w, u, pc) ==
  /\ upc' = [upc EXCEPT ![w][u] = pc]
  /\ UNCHANGED <<unitLog, wpc, sem, wg>>

\* Lines 152-158: the next unit of the range loop: the failure count and the
\* test for a session link.
SeqNextUnit(w) ==
  /\ wpc[w] = "seqLoop"
  /\ Pending(w) # {}
  /\ LET u == CHOOSE x \in Pending(w) : \A y \in Pending(w) : x <= y IN
       /\ failedCount' = [failedCount EXCEPT ![w] =
                            IF responses[w][u].status THEN @ ELSE @ + 1]
       /\ IF responses[w][u].link
            THEN /\ upc' = [upc EXCEPT ![w][u] = "load"]
                 /\ wpc' = [wpc EXCEPT ![w] = "seqUnit"]
            ELSE /\ upc' = [upc EXCEPT ![w][u] = "done"]
                 /\ UNCHANGED wpc
  /\ UNCHANGED <<toolVars, rootCtxDone, mainVars, sem, wg, userAgentIndex, batchOutcome, ua,
                 responses, shouldBlockProxy, responseWg, responseSem,
                 blockCalls, blockOutcome, sess, updateCalls, unitLog>>

\* Lines 164-173: LoadSession.
SeqLoadSession(w, u) ==
  /\ wpc[w] = "seqUnit" /\ upc[w][u] = "load"
  /\ \E out \in {"redirect", "noRedirect", "err"} :
       IF out = "redirect"
         THEN /\ SeqGoto(w, u, "init")
              /\ UNCHANGED sess
         ELSE SeqReturn(w, u, IF out = "err" THEN "error on load game"
                              ELSE "error on load game: sessionData is nil")
  /\ UNCHANGED <<toolVars, rootCtxDone, mainVars, userAgentIndex, batchOutcome, ua, responses,
                 failedCount, shouldBlockProxy, responseWg, responseSem,
                 blockCalls, blockOutcome, updateCalls>>

\* A protocol call of the sequential variant and its return.
SeqCall(w, u, request, Bodies, line) ==
  \/ SeqReturn(w, u, line)
  \/ \E b \in Bodies :
       LET d == ParseResponseData(b) IN
         /\ sess' = [sess EXCEPT ![w][u] =
                       [AfterReply([@ EXCEPT !.req = request], d)
                          EXCEPT !.absent = LacksField(b), !.amount = 0]]
         /\ SeqGoto(w, u, PcAfter(request.kind, d))

\* Lines 175-186: DoInit.
SeqDoInit(w, u, Bodies) ==
  /\ wpc[w] = "seqUnit" /\ upc[w][u] = "init"
  /\ SeqCall(w, u, [kind |-> "doInit", index |-> 1, counter |-> 1, c |-> 0],
             Bodies, "error on init game")
  /\ UNCHANGED <<toolVars, rootCtxDone, mainVars, userAgentIndex, batchOutcome, ua, responses,
                 failedCount, shouldBlockProxy, responseWg, responseSem,
                 blockCalls, blockOutcome, updateCalls>>

\* Lines 189-191, 223 and 240: the top of the game loop.
SeqLoop(w, u) ==
  /\ wpc[w] = "seqUnit" /\ upc[w][u] = "loop"
  /\ SeqGoto(w, u, LoopTarget(sess[w][u].data))
  /\ sess' = [sess EXCEPT ![w][u] =
                IF ThresholdReached(@.data) THEN @ ELSE WithAmount(@)]
  /\ UNCHANGED <<toolVars, rootCtxDone, mainVars, userAgentIndex, batchOutcome, ua, responses,
                 failedCount, shouldBlockProxy, responseWg, responseSem,
                 blockCalls, blockOutcome, updateCalls>>

\* Lines 198-206: UpdateUserBalance; an error returns, success breaks.
SeqUpdateBalance(w, u) ==
  /\ wpc[w] = "seqUnit" /\ upc[w][u] = "update"
  /\ updateCalls' = updateCalls \cup
                      {[w |-> w, u |-> u, balance |-> sess[w][u].data.Balance,
                        n |-> UpdatesOf(w, u) + 1]}
  /\ \E out \in UpdateOutcomes :
       IF GetProxiesErr(out) = "nil"
         THEN SeqBreak(w, u, "threshold reached, stopping loop")
         ELSE SeqReturn(w, u, "error on update user balance")
  /\ UNCHANGED <<toolVars, rootCtxDone, mainVars, userAgentIndex, batchOutcome, ua, responses,
                 failedCount, shouldBlockProxy, responseWg, responseSem, blockCalls, blockOutcome>>

\* Lines 223-238: DoSpin.
SeqDoSpin(w, u, Bodies) ==
  /\ wpc[w] = "seqUnit" /\ upc[w][u] = "spin"
  /\ SeqCall(w, u, [kind |-> "doSpin", index |-> sess[w][u].index,
                    counter |-> sess[w][u].counter,
                    c |-> CoinValue(sess[w][u].data.Balance)],
             Bodies, "error on spin game")
  /\ UNCHANGED <<toolVars, rootCtxDone, mainVars, userAgentIndex, batchOutcome, ua, responses,
                 failedCount, shouldBlockProxy, responseWg, responseSem,
                 blockCalls, blockOutcome, updateCalls>>

\* Lines 240-255: DoCollect.
SeqDoCollect(w, u, Bodies) ==
  /\ wpc[w] = "seqUnit" /\ upc[w][u] = "collect"
  /\ SeqCall(w, u, [kind |-> "doCollect", index |-> sess[w][u].index,
                    counter |-> sess[w][u].counter, c |-> 0],
             Bodies, "error on collect")
  /\ UNCHANGED <<toolVars, rootCtxDone, mainVars, userAgentIndex, batchOutcome, ua, responses,
                 failedCount, shouldBlockProxy, responseWg, responseSem,
                 blockCalls, blockOutcome, updateCalls>>

\* Line 257: the pacing delay.
SeqSleep(w, u) ==
  /\ wpc[w] = "seqUnit" /\ upc[w][u] = "sleep"
  /\ SeqGoto(w, u, "loop")
  /\ sess' = [sess EXCEPT ![w][u].amount = 0]
  /\ UNCHANGED <<toolVars, rootCtxDone, mainVars, userAgentIndex, batchOutcome, ua, responses,
                 failedCount, shouldBlockProxy, responseWg, responseSem,
                 blockCalls, blockOutcome, updateCalls>>

\* Lines 262-278: after the last unit, the failure-rate classification.
SeqClassify(w) ==
  /\ wpc[w] = "seqLoop"
  /\ Pending(w) = {}
  /\ LET q == ShouldQuarantine(Len(responses[w]), failedCount[w]) IN
       /\ shouldBlockProxy' = [shouldBlockProxy EXCEPT ![w] = q]
       /\ IF q
            THEN /\ wpc' = [wpc EXCEPT ![w] = "seqBlock"]
                 /\ UNCHANGED <<sem, wg>>
            ELSE WorkerExit(w)
  /\ UNCHANGED <<toolVars, rootCtxDone, mainVars, userAgentIndex, batchOutcome, ua, responses,
                 failedCount, responseWg, responseSem, blockCalls, blockOutcome, unitVars>>

\* Lines 281-297: BlockProxy, its result logged only.
SeqBlockProxy(w) ==
  /\ wpc[w] = "seqBlock"
  /\ blockCalls' = blockCalls \cup {w}
  /\ \E out \in FetchOutcomes :
       blockOutcome' = [blockOutcome EXCEPT ![w] = out]
  /\ WorkerExit(w)
  /\ UNCHANGED <<toolVars, rootCtxDone, mainVars, userAgentIndex, batchOutcome, ua, responses,
                 failedCount, shouldBlockProxy, responseWg, responseSem, unitVars>>

SeqWorker(w, Bodies) ==
  \/ SeqNextUnit(w)
  \/ SeqClassify(w)
  \/ SeqBlockProxy(w)
  \/ \E u \in Units :
       \/ SeqLoadSession(w, u)
       \/ SeqDoInit(w, u, Bodies)
       \/ SeqLoop(w, u)
       \/ SeqUpdateBalance(w, u)
       \/ SeqDoSpin(w, u, Bodies)
       \/ SeqDoCollect(w, u, Bodies)
       \/ SeqSleep(w, u)

\* ------------------------------------------------------ specifications
\* The round specification: the whole of Run.
Next ==
  \/ Shutdown
  \/ Main
  \/ \E w \in Workers : Worker(w)
  \/ \E w \in Workers, u \in Units : Unit(w, u, RoundBodies)

Spec == Init /\ [][Next]_vars

\* The Go scheduler runs every runnable goroutine, and every network call of
\* Run carries a timeout, so it returns.
FairSpec ==
  /\ Spec
  /\ WF_vars(Main)
  /\ \A w \in Workers : WF_vars(Worker(w))
  /\ \A w \in Workers, u \in Units : WF_vars(Unit(w, u, RoundBodies))

\* The session specification: one worker waiting on responseWg for its one
\* unit, which carries a session link; the game service may send any reply.
SessionInit ==
  /\ rootCtxDone = FALSE
  /\ mainPc = "wgWait"
  /\ fetchOutcome = "ok"
  /\ proxiesResp = 1
  /\ spawnI = 1
  /\ sem = 1
  /\ wg = 1
  /\ userAgentIndex \in 0..(NumUserAgents - 1)
  /\ wpc = [w \in Workers |-> IF w = 1 THEN "respWait" ELSE "idle"]
  /\ batchOutcome = [w \in Workers |-> IF w = 1 THEN "ok" ELSE "none"]
  /\ ua = (userAgentIndex + NumUserAgents - 1) % NumUserAgents
  /\ \E st \in BOOLEAN :
       responses = [w \in Workers |->
                      IF w = 1 THEN <<[status |-> st, link |-> TRUE]>> ELSE <<>>]
  /\ failedCount = [w \in Workers |-> 0]
  /\ shouldBlockProxy = [w \in Workers |-> FALSE]
  /\ responseWg = [w \in Workers |-> IF w = 1 THEN 1 ELSE 0]
  /\ responseSem = [w \in Workers |-> 0]
  /\ blockCalls = {}
  /\ blockOutcome = [w \in Workers |-> "none"]
  /\ upc = [w \in Workers |-> [u \in Units |-> IF w = 1 /\ u = 1 THEN "start" ELSE "none"]]
  /\ sess = [w \in Workers |-> [u \in Units |-> NoSess]]
  /\ updateCalls = {}
  /\ unitLog = [w \in Workers |-> [u \in Units |-> ""]]
  /\ ToolsIdle

SessionNext ==
  \/ Shutdown
  \/ Unit(1, 1, SessionBodies)

SessionSpec == SessionInit /\ [][SessionNext]_vars

\* The session specification with replies at the edges of the balance band,
\* its goroutine scheduled and its calls returning (the client of the session
\* has a 5 s timeout).
FairSessionNext ==
  \/ Shutdown
  \/ Unit(1, 1, BoundaryBodies)

FairSessionSpec ==
  /\ SessionInit
  /\ [][FairSessionNext]_vars
  /\ WF_vars(Unit(1, 1, BoundaryBodies))

\* The sequential specification: a worker of the Run of lines 29-309 whose
\* batch call returned BatchSize units, about to go through them.
SeqInit ==
  /\ rootCtxDone = FALSE
  /\ mainPc = "wgWait"
  /\ fetchOutcome = "ok"
  /\ proxiesResp = 1
  /\ spawnI = 1
  /\ sem = 1
  /\ wg = 1
  /\ userAgentIndex \in 0..(NumUserAgents - 1)
  /\ wpc = [w \in Workers |-> IF w = 1 THEN "seqLoop" ELSE "idle"]
  /\ batchOutcome = [w \in Workers |-> IF w = 1 THEN "ok" ELSE "none"]
  /\ ua = (userAgentIndex + NumUserAgents - 1) % NumUserAgents
  /\ \E r \in [1..BatchSize -> UnitRec] :
       responses = [w \in Workers |-> IF w = 1 THEN r ELSE <<>>]
  /\ failedCount = [w \in Workers |-> 0]
  /\ shouldBlockProxy = [w \in Workers |-> FALSE]
  /\ responseWg = [w \in Workers |-> 0]
  /\ responseSem = [w \in Workers |-> 0]
  /\ blockCalls = {}
  /\ blockOutcome = [w \in Workers |-> "none"]
  /\ upc = [w \in Workers |-> [u \in Units |-> IF w = 1 THEN "pending" ELSE "none"]]
  /\ sess = [w \in Workers |-> [u \in Units |-> NoSess]]
  /\ updateCalls = {}
  /\ unitLog = [w \in Workers |-> [u \in Units |-> ""]]
  /\ ToolsIdle

SeqNext == SeqWorker(1, RoundBodies)

SeqSpec == SeqInit /\ [][SeqNext]_vars

\* The batch specification: a worker whose batch call returned BatchSize
\* units, of any status and with or without a link, and has started their
\* goroutines.
BatchInit ==
  /\ rootCtxDone = FALSE
  /\ mainPc = "wgWait"
  /\ fetchOutcome = "ok"
  /\ proxiesResp = 1
  /\ spawnI = 1
  /\ sem = 1
  /\ wg = 1
  /\ userAgentIndex \in 0..(NumUserAgents - 1)
  /\ wpc = [w \in Workers |-> IF w = 1 THEN "respWait" ELSE "idle"]
  /\ batchOutcome = [w \in Workers |-> IF w = 1 THEN "ok" ELSE "none"]
  /\ ua = (userAgentIndex + NumUserAgents - 1) % NumUserAgents
  /\ \E r \in [1..BatchSize -> UnitRec] :
       responses = [w \in Workers |-> IF w = 1 THEN r ELSE <<>>]
  /\ failedCount = [w \in Workers |-> 0]
  /\ shouldBlockProxy = [w \in Workers |-> FALSE]
  /\ responseWg = [w \in Workers |-> IF w = 1 THEN BatchSize ELSE 0]
  /\ responseSem = [w \in Workers |-> 0]
  /\ blockCalls = {}
  /\ blockOutcome = [w \in Workers |-> "none"]
  /\ upc = [w \in Workers |-> [u \in Units |-> IF w = 1 THEN "start" ELSE "none"]]
  /\ sess = [w \in Workers |-> [u \in Units |-> NoSess]]
  /\ updateCalls = {}
  /\ unitLog = [w \in Workers |-> [u \in Units |-> ""]]
  /\ ToolsIdle

BatchNext ==
  \/ Shutdown
  \/ WorkerClassify(1)
  \/ WorkerCallBlock(1)
  \/ WorkerBlockReturn(1)
  \/ \E u \in Units : Unit(1, u, RoundBodies)

BatchSpec == BatchInit /\ [][BatchNext]_vars

\* The classification specification: a worker whose batch call returned
\* total units, failed of them with status=false and none with a link, all of
\* whose goroutines have counted and finished, waits on responseWg.
ClassifyInit ==
  /\ rootCtxDone = FALSE
  /\ mainPc = "wgWait"
  /\ fetchOutcome = "ok"
  /\ proxiesResp = 1
  /\ spawnI = 1
  /\ sem = 1
  /\ wg = 1
  /\ userAgentIndex \in 0..(NumUserAgents - 1)
  /\ wpc = [w \in Workers |-> IF w = 1 THEN "respWait" ELSE "idle"]
  /\ batchOutcome = [w \in Workers |-> IF w = 1 THEN "ok" ELSE "none"]
  /\ ua = (userAgentIndex + NumUserAgents - 1) % NumUserAgents
  /\ \E total \in 0..ClassifyMaxTotal : \E failed \in 0..total :
       /\ responses = [w \in Workers |->
                         IF w = 1 THEN [i \in 1..total |->
                                          [status |-> i > failed, link |-> FALSE]]
                         ELSE <<>>]
       /\ failedCount = [w \in Workers |-> IF w = 1 THEN failed ELSE 0]
       /\ upc = [w \in Workers |->
                   [u \in Units \cup 1..total |->
                      IF w = 1 /\ u <= total THEN "done" ELSE "none"]]
  /\ shouldBlockProxy = [w \in Workers |-> FALSE]
  /\ responseWg = [w \in Workers |-> 0]
  /\ responseSem = [w \in Workers |-> 0]
  /\ blockCalls = {}
  /\ blockOutcome = [w \in Workers |-> "none"]
  /\ sess = [w \in Workers |-> [u \in Units |-> NoSess]]
  /\ updateCalls = {}
  /\ unitLog = [w \in Workers |-> [u \in Units |-> ""]]
  /\ ToolsIdle

ClassifyNext ==
  \/ Shutdown
  \/ WorkerClassify(1)
  \/ WorkerCallBlock(1)
  \/ WorkerBlockReturn(1)

ClassifySpec == ClassifyInit /\ [][ClassifyNext]_vars

\* ----------------------------------------------------------- proxycheck
\* The variables of Run, which the other commands do not touch.
runVars == <<rootCtxDone, mainVars, sem, wg, userAgentIndex, workerVars, unitVars>>

\* NewProxyChecker, lines 41-46: the number of test URLs.
NumTestURLs == 4

\* Addresses: the recorded ones, and what api.ipify.org may report ("" when
\* its JSON reply has no ip field).
RecordedIPs == {"a", "b"}
ReportedIPs == {"a", "b", ""}

\* isURLBlocked, lines 215-249, by what happens to the request (the test URLs
\* are well-formed constants, so the request can always be built): client.Do
\* fails (true), the status is not 200 (true), the body cannot be read
\* (false), the body contains errorOccurPath (true), or none of these (false).
URLOutcomes == {"doErr", "non200", "readErr", "marker", "ok"}

IsURLBlockedStatusOnly(o) == o \in {"doErr", "non200"}

IsURLBlocked(o) == o \in {"doErr", "non200", "marker"}

\* yarunAPI.UnblockProxy(ctx, proxy.ID, ip, stillBlocked) is called from state
\* s of the check; sent says whether the request left (a cancelled ctx
\* refuses it).
UnblockCall(s, ip, stillBlocked) ==
  [s EXCEPT !.pc = "unblockWait",
            !.calls = Append(@, [ip |-> ip, stillBlocked |-> stillBlocked,
                                 sent |-> ~s.ctxDone])]

\* The signal handler of main (part_013 44-48) cancels ctx.
SingleCancel ==
  /\ single.pc \notin {"none", "returned"}
  /\ ~single.ctxDone
  /\ single' = [single EXCEPT !.ctxDone = TRUE]
  /\ UNCHANGED <<runVars, dd, cyc, chk>>

\* Lines 116-136: the proxy URL is built and parsed; a URL that does not parse
\* ends the call before anything is checked.
SingleParse ==
  /\ single.pc = "start"
  /\ single' = IF single.parseOk
                 THEN [single EXCEPT !.pc = "getIP"]
                 ELSE [single EXCEPT !.pc = "returned", !.err = "invalid proxy URL"]
  /\ UNCHANGED <<runVars, dd, cyc, chk>>

\* Lines 138-158: getCurrentIP through the proxy; on an error the proxy stays
\* blocked (updateProxyLastCheck, 252-258), on another address it is unblocked
\* with that address, on the same address the test URLs are tried.
SingleGetIP ==
  /\ single.pc = "getIP"
  /\ \E out \in (IF single.ctxDone THEN {"err"} ELSE {"err", "ok"}),
        cur \in ReportedIPs :
       single' = IF out = "err" THEN UnblockCall(single, single.ip, TRUE)
                 ELSE IF cur # single.ip
                   THEN UnblockCall([single EXCEPT !.currentIP = cur], cur, FALSE)
                 ELSE [single EXCEPT !.pc = "urls", !.i = 1, !.currentIP = cur]
  /\ UNCHANGED <<runVars, dd, cyc, chk>>

\* Lines 158-166 and 205-212: checkProxyBlocked tries the test URLs in order
\* and stops at the first one found blocked; the proxy then stays blocked, and
\* is unblocked with its recorded address when none was.
SingleCheckURL ==
  /\ single.pc = "urls"
  /\ \E o \in (IF single.ctxDone THEN {"doErr"} ELSE URLOutcomes) :
       LET s == [single EXCEPT !.seen = Append(@, o)] IN
         single' = IF IsURLBlocked(o) THEN UnblockCall(s, single.ip, TRUE)
                   ELSE IF single.i = NumTestURLs THEN UnblockCall(s, single.ip, FALSE)
                   ELSE [s EXCEPT !.i = @ + 1]
  /\ UNCHANGED <<runVars, dd, cyc, chk>>

\* Lines 149-154, 166-171, 253-257: UnblockProxy returns, and checkSingleProxy
\* returns its error or nil.
SingleUnblockReturn ==
  /\ single.pc = "unblockWait"
  /\ \E out \in (IF single.ctxDone THEN {"err"} ELSE {"ok", "err"}) :
       single' = [single EXCEPT
                    !.pc = "returned",
                    !.err = IF out = "ok" THEN ""
                            ELSE IF single.calls[Len(single.calls)].stillBlocked
                              THEN "failed to update proxy last check"
                            ELSE "failed to unblock proxy"]
  /\ UNCHANGED <<runVars, dd, cyc, chk>>

\* The single-check specification: checkSingleProxy is called for a blocked
\* proxy with any recorded address, with credentials and a port that give a
\* proxy URL that parses or not.
SingleInit ==
  /\ RunIdle
  /\ dd = NoDupDel
  /\ cyc = NoCycle
  /\ chk = NoCheck
  /\ \E a \in RecordedIPs, ok \in BOOLEAN :
       single = [NoSingle EXCEPT !.pc = "start", !.ip = a, !.parseOk = ok]

SingleNext ==
  \/ SingleCancel
  \/ SingleParse
  \/ SingleGetIP
  \/ SingleCheckURL
  \/ SingleUnblockReturn

SingleSpec == SingleInit /\ [][SingleNext]_vars

\* ------------------------------------------------- proxycheck: the cycles
\* NewProxyChecker, line 52: semaphore.NewWeighted(10).
SemPermits == 10

\* The largest number of blocked proxies GetBlockedProxies returns, and the
\* number of CheckProxies calls main makes.
MaxBlocked == 12
MaxCycles == 2

\* What CheckProxies returns: nil, ctx.Err() (lines 63, 87, 95), the error of
\* GetBlockedProxies wrapped (line 70; it wraps ctx.Err() when ctx was
\* cancelled), or the not-ok error (line 74).
CtxErrors == {"ctx", "ctxWrapped"}

\* The variables of the other commands, which proxycheck's main does not touch.
CycFrame == UNCHANGED <<runVars, single, dd, chk>>

\* part_013 44-48: the signal goroutine cancels ctx.
ProxyMainCancel ==
  /\ cyc.pc \notin {"none", "exited"}
  /\ ~cyc.ctxDone
  /\ cyc' = [cyc EXCEPT !.ctxDone = TRUE]
  /\ CycFrame

\* part_013 54: the ticker puts a value on ticker.C (it holds at most one).
ProxyMainTick ==
  /\ cyc.pc \notin {"none", "exited"}
  /\ ~cyc.tick
  /\ cyc.cycles < MaxCycles
  /\ cyc' = [cyc EXCEPT !.tick = TRUE]
  /\ CycFrame

\* part_013 63-73: the select of the interval loop; with both channels ready
\* either case may be taken.
ProxyMainSelect ==
  /\ cyc.pc = "select"
  /\ \/ /\ cyc.ctxDone
        /\ cyc' = [cyc EXCEPT !.pc = "exited"]
     \/ /\ cyc.tick
        /\ cyc' = [cyc EXCEPT !.pc = "entry", !.tick = FALSE, !.cycles = @ + 1,
                              !.ret = "", !.n = 0, !.i = 0]
  /\ CycFrame

\* proxycheck.go 61-65: a call made with ctx cancelled returns ctx.Err().
CheckProxiesEntry ==
  /\ cyc.pc = "entry"
  /\ cyc' = IF cyc.ctxDone THEN [cyc EXCEPT !.pc = "select", !.ret = "ctx"]
            ELSE [cyc EXCEPT !.pc = "fetchWait"]
  /\ CycFrame

\* proxycheck.go 68-79: GetBlockedProxies returns an error (the call fails
\* once ctx is cancelled), a reply that is not ok, or a list of proxies.
CheckProxiesFetchReturn ==
  /\ cyc.pc = "fetchWait"
  /\ \E out \in (IF cyc.ctxDone THEN {"err"} ELSE {"ok", "err", "notOk"}),
        k \in 0..MaxBlocked :
       cyc' = IF out = "err"
                THEN [cyc EXCEPT !.pc = "select",
                                 !.ret = IF cyc.ctxDone THEN "ctxWrapped" ELSE "fetchErr"]
              ELSE IF out = "notOk" THEN [cyc EXCEPT !.pc = "select", !.ret = "notOk"]
              ELSE [cyc EXCEPT !.pc = "loop", !.n = k, !.i = 0]
  /\ CycFrame

\* The loop test returning at once, whatever goroutines are still running.
CheckProxiesLoopTestNoWait ==
  /\ cyc.pc = "loop"
  /\ cyc' = IF cyc.i = cyc.n THEN [cyc EXCEPT !.pc = "waitFinal"]
            ELSE IF cyc.ctxDone THEN [cyc EXCEPT !.pc = "select", !.ret = "ctx"]
            ELSE [cyc EXCEPT !.pc = "acquire"]
  /\ CycFrame

\* proxycheck.go 81-89: the range loop ends after the last proxy; before each
\* proxy the select takes ctx.Done() when ctx is cancelled.
CheckProxiesLoopTest ==
  /\ cyc.pc = "loop"
  /\ cyc' = IF cyc.i = cyc.n THEN [cyc EXCEPT !.pc = "waitFinal"]
            ELSE IF cyc.ctxDone THEN [cyc EXCEPT !.pc = "waitEarly"]
            ELSE [cyc EXCEPT !.pc = "acquire"]
  /\ CycFrame

\* proxycheck.go 92-96: semaphore.Acquire(ctx, 1) takes a permit when one is
\* free and blocks otherwise; with ctx cancelled it fails, and with a free
\* permit and ctx cancelled either may happen (it depends on the version of
\* the semaphore package and on when the cancellation is seen).
CheckProxiesAcquire ==
  /\ cyc.pc = "acquire"
  /\ \/ /\ cyc.sem < SemPermits
        /\ cyc' = [cyc EXCEPT !.pc = "spawn", !.sem = @ + 1]
     \/ /\ cyc.ctxDone
        /\ cyc' = [cyc EXCEPT !.pc = "waitEarly"]
  /\ CycFrame

\* proxycheck.go 98-106: wg.Add(1) and the goroutine of the check is started.
CheckProxiesSpawn ==
  /\ cyc.pc = "spawn"
  /\ cyc' = [cyc EXCEPT !.pc = "loop", !.wg = @ + 1, !.checking = @ + 1, !.i = @ + 1,
                        !.lateStarts = IF cyc.ctxDone THEN @ + 1 ELSE @]
  /\ CycFrame

\* The goroutine ending with wg.Done() only.
CheckGoroutineDoneOnly ==
  /\ cyc.checking > 0
  /\ cyc' = [cyc EXCEPT !.checking = @ - 1, !.wg = @ - 1]
  /\ CycFrame

\* proxycheck.go 101-105: checkSingleProxy returns and the deferred
\* semaphore.Release(1) runs (deferred last, so it runs first).
CheckGoroutineRelease ==
  /\ cyc.checking > 0
  /\ cyc' = [cyc EXCEPT !.checking = @ - 1, !.sem = @ - 1, !.released = @ + 1]
  /\ CycFrame

\* proxycheck.go 100: the deferred wg.Done() runs.
CheckGoroutineDone ==
  /\ cyc.released > 0
  /\ cyc' = [cyc EXCEPT !.released = @ - 1, !.wg = @ - 1]
  /\ CycFrame

\* proxycheck.go 85-87 and 93-95: wg.Wait() and return ctx.Err().
CheckProxiesWaitEarly ==
  /\ cyc.pc = "waitEarly"
  /\ cyc.wg = 0
  /\ cyc' = [cyc EXCEPT !.pc = "select", !.ret = "ctx"]
  /\ CycFrame

\* proxycheck.go 110-112: wg.Wait() and return nil.
CheckProxiesWaitFinal ==
  /\ cyc.pc = "waitFinal"
  /\ cyc.wg = 0
  /\ cyc' = [cyc EXCEPT !.pc = "select", !.ret = "nil"]
  /\ CycFrame

\* The proxycheck specification: main makes its initial CheckProxies call
\* (part_013 58) with all permits free.
CycInit ==
  /\ RunIdle
  /\ single = NoSingle
  /\ dd = NoDupDel
  /\ chk = NoCheck
  /\ cyc = [NoCycle EXCEPT !.pc = "entry", !.cycles = 1]

CycNext ==
  \/ ProxyMainCancel
  \/ ProxyMainTick
  \/ ProxyMainSelect
  \/ CheckProxiesEntry
  \/ CheckProxiesFetchReturn
  \/ CheckProxiesLoopTest
  \/ CheckProxiesAcquire
  \/ CheckProxiesSpawn
  \/ CheckGoroutineRelease
  \/ CheckGoroutineDone
  \/ CheckProxiesWaitEarly
  \/ CheckProxiesWaitFinal

CycSpec == CycInit /\ [][CycNext]_vars

\* CheckProxies returns in this step.
CheckProxiesReturns == cyc.pc \notin {"select", "exited", "none"} /\ cyc'.pc = "select"

\* -------------------------------------------------------------- checker
\* The worker counts and the domain lists CheckDomains is called with.
MaxWorkers == 2
MaxDomains == 3
Domains == {"a", "b"}
CheckerIds == 1..MaxWorkers

RECURSIVE SeqsUpTo(_, _)
SeqsUpTo(S, n) ==
  IF n = 0 THEN {<<>>}
  ELSE LET shorter == SeqsUpTo(S, n - 1)
       IN shorter \cup {Append(q, x) : q \in {r \in shorter : Len(r) = n - 1}, x \in S}

\* checker.go 134-135: both channels are made with len(domains) places.
ChanCap == Len(chk.domains)

\* The variables of the other commands, which the checker does not touch.
ChkFrame == UNCHANGED <<runVars, single, dd, cyc>>

\* checker.go 139-148: the loop that starts c.workers goroutines, wg.Add(1)
\* before each.
ChkSpawn ==
  /\ chk.pc = "start"
  /\ chk' = IF chk.spawned < chk.workers
              THEN [chk EXCEPT !.spawned = @ + 1, !.wg = @ + 1,
                               !.wk = Append(@, [pc |-> "recv", domain |-> ""])]
            ELSE [chk EXCEPT !.pc = "send"]
  /\ ChkFrame

\* checker.go 151-154: every domain is put on jobs (a send blocks while the
\* channel is full), then jobs is closed.
ChkSend ==
  /\ chk.pc = "send"
  /\ IF chk.sent < Len(chk.domains)
       THEN /\ Len(chk.jobs) < ChanCap
            /\ chk' = [chk EXCEPT !.sent = @ + 1,
                                  !.jobs = Append(@, chk.domains[chk.sent + 1])]
       ELSE chk' = [chk EXCEPT !.pc = "startWaiter", !.jobsClosed = TRUE]
  /\ ChkFrame

\* checker.go 157-160: the goroutine that closes results is started.
ChkStartWaiter ==
  /\ chk.pc = "startWaiter"
  /\ chk' = [chk EXCEPT !.pc = "collect", !.waiter = "waiting"]
  /\ ChkFrame

\* checker.go 158-159: wg.Wait() returns and results is closed.
ChkWaiter ==
  /\ chk.waiter = "waiting"
  /\ chk.wg = 0
  /\ chk' = [chk EXCEPT !.waiter = "closed", !.resultsClosed = TRUE]
  /\ ChkFrame

\* checker.go 142-143: a worker takes the next domain from jobs, or ends
\* (deferred wg.Done) when jobs is closed and empty.
ChkWorkerRecv(w) ==
  /\ w \in DOMAIN chk.wk
  /\ chk.wk[w].pc = "recv"
  /\ \/ /\ chk.jobs # <<>>
        /\ chk' = [chk EXCEPT !.jobs = Tail(@),
                              !.wk[w] = [pc |-> "checking", domain |-> Head(chk.jobs)]]
     \/ /\ chk.jobs = <<>>
        /\ chk.jobsClosed
        /\ chk' = [chk EXCEPT !.wk[w] = [pc |-> "done", domain |-> ""], !.wg = @ - 1]
  /\ ChkFrame

\* A worker that ends after its first result.
ChkWorkerCheckOnce(w) ==
  /\ w \in DOMAIN chk.wk
  /\ chk.wk[w].pc = "checking"
  /\ Len(chk.results) < ChanCap
  /\ \E ok \in BOOLEAN :
       chk' = [chk EXCEPT !.results = Append(@, [Domain |-> chk.wk[w].domain,
                                                 Success |-> ok]),
                          !.checks = @ + 1,
                          !.wk[w] = [pc |-> "done", domain |-> ""], !.wg = @ - 1]
  /\ ChkFrame

\* checker.go 144-145 and 77-130: CheckDomain returns a result for the domain
\* (the HTTP client gives up after 30 seconds), and the worker puts it on
\* results.
ChkWorkerCheck(w) ==
  /\ w \in DOMAIN chk.wk
  /\ chk.wk[w].pc = "checking"
  /\ Len(chk.results) < ChanCap
  /\ \E ok \in BOOLEAN :
       chk' = [chk EXCEPT !.results = Append(@, [Domain |-> chk.wk[w].domain,
                                                 Success |-> ok]),
                          !.checks = @ + 1,
                          !.wk[w] = [pc |-> "recv", domain |-> ""]]
  /\ ChkFrame

\* checker.go 163-168: results are collected until the channel is closed and
\* empty, then allResults is returned.
ChkCollect ==
  /\ chk.pc = "collect"
  /\ \/ /\ chk.results # <<>>
        /\ chk' = [chk EXCEPT !.results = Tail(@),
                              !.allResults = Append(@, Head(chk.results))]
     \/ /\ chk.results = <<>>
        /\ chk.resultsClosed
        /\ chk' = [chk EXCEPT !.pc = "returned"]
  /\ ChkFrame

\* The checker specification: CheckDomains is called with any worker count up
\* to MaxWorkers and any list of at most MaxDomains domains.
ChkInit ==
  /\ RunIdle
  /\ single = NoSingle
  /\ dd = NoDupDel
  /\ cyc = NoCycle
  /\ \E n \in 0..MaxWorkers, ds \in SeqsUpTo(Domains, MaxDomains) :
       chk = [NoCheck EXCEPT !.pc = "start", !.workers = n, !.domains = ds]

ChkNext ==
  \/ ChkSpawn
  \/ ChkSend
  \/ ChkStartWaiter
  \/ ChkWaiter
  \/ \E w \in CheckerIds : ChkWorkerRecv(w)
  \/ \E w \in CheckerIds : ChkWorkerCheck(w)
  \/ ChkCollect

ChkSpec == ChkInit /\ [][ChkNext]_vars

\* Every goroutine that can run is eventually run.
ChkFairness ==
  /\ WF_vars(ChkSpawn \/ ChkSend \/ ChkStartWaiter \/ ChkCollect)
  /\ WF_vars(ChkWaiter)
  /\ \A w \in CheckerIds : WF_vars(ChkWorkerRecv(w) \/ ChkWorkerCheck(w))

FairChkSpec == ChkSpec /\ ChkFairness

\* How often domain d occurs in the input, and among the results returned.
InputCount(d) == Cardinality({k \in 1..Len(chk.domains) : chk.domains[k] = d})
ResultCount(d) == Cardinality({k \in 1..Len(chk.allResults) : chk.allResults[k].Domain = d})

\* --------------------------------------------------------------- dupdel
\* The users collection holds at most MaxUsers records; _id values are
\* 1..MaxUsers in ObjectID order, and 0 is primitive.NilObjectID.
MaxUsers == 3
UserIds == 1..MaxUsers
NilObjectID == 0
AppCodes == {"x", "y"}
Usernames == {"u", "v"}

\* ObjectID.Hex and primitive.ObjectIDFromHex (user.go 144, 159).
Hex(id) == <<"hex", id>>
ObjectIDFromHex(h) == h[2]

\* The $sort stage: the _id values of a set of records in ascending order.
RECURSIVE SortedIds(_)
SortedIds(ids) ==
  IF ids = {} THEN <<>>
  ELSE LET m == CHOOSE a \in ids : \A b \in ids : a <= b
       IN <<m>> \o SortedIds(ids \ {m})

\* The first $match stage of FindDuplicate (user.go 102-106).
DupMatch(users, index, appCode, username, currentId) ==
  {u \in users : /\ u.id > index
                 /\ u.id # currentId
                 /\ u.app_code = appCode
                 /\ u.username = username}

\* UserRepo.FindDuplicate, user.go 99-150, when Aggregate succeeds: the
\* records matched are sorted by _id and grouped (they share one app_code and
\* username, so there is at most one group); a group of one is dropped by
\* count > 1, and $slice [ids, 1, count - 1] drops the first id of the group.
FindDuplicate(users, index, appCode, username, currentId) ==
  LET ids == SortedIds({u.id : u \in DupMatch(users, index, appCode, username, currentId)})
      count == Len(ids)
  IN IF count = 0 THEN <<>>
     ELSE IF ~(count > 1) THEN <<>>
     ELSE [k \in 1..(count - 1) |-> Hex(ids[k + 1])]

\* The variables of the other commands, which DupDel.Run does not touch.
DupFrame == UNCHANGED <<runVars, single, cyc, chk>>

\* A calling context is cancelled (NewDupDel is given one by its caller).
DupCancel ==
  /\ dd.pc \notin {"none", "done"}
  /\ ~dd.ctxDone
  /\ dd' = [dd EXCEPT !.ctxDone = TRUE]
  /\ DupFrame

\* main.go 759-764: the select at the top of the loop.
DupSelect ==
  /\ dd.pc = "loop"
  /\ dd' = IF dd.ctxDone THEN [dd EXCEPT !.pc = "done", !.ended = "cancelled"]
           ELSE [dd EXCEPT !.pc = "getFirst"]
  /\ DupFrame

\* main.go 766-776 and user.go 75-89: FindOne without a sort returns any
\* record whose _id is greater than currentIndex, or nothing; an error is
\* logged and retried after a second.
DupGetFirst ==
  /\ dd.pc = "getFirst"
  /\ \E out \in (IF dd.ctxDone THEN {"err"} ELSE {"ok", "err"}) :
       LET found == {u \in dd.users : u.id > dd.currentIndex} IN
         IF out = "err" THEN dd' = [dd EXCEPT !.pc = "loop", !.failed = TRUE]
         ELSE IF found = {}
           THEN dd' = [dd EXCEPT !.pc = "done", !.ended = "no more users found"]
         ELSE \E u \in found : dd' = [dd EXCEPT !.pc = "find", !.user = u]
  /\ DupFrame

\* main.go 781-786: FindDuplicate is called with primitive.NilObjectID as its
\* index; on an error the user is skipped.
DupFind ==
  /\ dd.pc = "find"
  /\ \E out \in (IF dd.ctxDone THEN {"err"} ELSE {"ok", "err"}) :
       dd' = IF out = "err"
               THEN [dd EXCEPT !.pc = "loop", !.failed = TRUE,
                               !.currentIndex = dd.user.id]
             ELSE [dd EXCEPT !.pc = "found",
                             !.duplicateIDs = FindDuplicate(dd.users, NilObjectID,
                                                            dd.user.app_code,
                                                            dd.user.username, dd.user.id)]
  /\ DupFrame

\* main.go 789-803: with a non-empty result DeleteBulk is called; then
\* currentIndex moves to the user's id.
DupFound ==
  /\ dd.pc = "found"
  /\ dd' = IF Len(dd.duplicateIDs) > 0 THEN [dd EXCEPT !.pc = "delete"]
           ELSE [dd EXCEPT !.pc = "loop", !.currentIndex = dd.user.id]
  /\ DupFrame

\* user.go 152-171 and main.go 793-803: DeleteMany removes the records whose
\* _id is in the list; an error is only logged.
DupDelete ==
  /\ dd.pc = "delete"
  /\ \E out \in (IF dd.ctxDone THEN {"err"} ELSE {"ok", "err"}) :
       LET objectIDs == {ObjectIDFromHex(dd.duplicateIDs[k]) :
                           k \in 1..Len(dd.duplicateIDs)} IN
         dd' = IF out = "err"
                 THEN [dd EXCEPT !.pc = "loop", !.failed = TRUE,
                                 !.currentIndex = dd.user.id]
               ELSE [dd EXCEPT !.pc = "loop",
                               !.users = {u \in @ : u.id \notin objectIDs},
                               !.totalDeleted = @ + Len(dd.duplicateIDs),
                               !.currentIndex = dd.user.id]
  /\ DupFrame

\* The dupdel specification: Run starts on any collection of at most MaxUsers
\* records.
DupInit ==
  /\ RunIdle
  /\ single = NoSingle
  /\ cyc = NoCycle
  /\ chk = NoCheck
  /\ \E present \in SUBSET UserIds, a \in [UserIds -> AppCodes],
        n \in [UserIds -> Usernames] :
       LET coll == {[id |-> i, app_code |-> a[i], username |-> n[i]] : i \in present}
       IN dd = [NoDupDel EXCEPT !.pc = "loop", !.initial = coll, !.users = coll]

DupNext ==
  \/ DupCancel
  \/ DupSelect
  \/ DupGetFirst
  \/ DupFind
  \/ DupFound
  \/ DupDelete

DupSpec == DupInit /\ [][DupNext]_vars

\* ---------------------------------------------------------------- claims
Holding == {"callBatch", "batchWait", "respWait", "block", "blockWait"}
ProtocolWait == {"initWait", "spinWait", "collectWait"}
Running(w) == wpc[w] \notin {"idle", "done"}
Total(w) == Len(responses[w])
Failed(w) == Cardinality({i \in 1..Len(responses[w]) : ~responses[w][i].status})

\* C1: once the shutdown signal has cancelled rootCtx, Run starts no new round
\* and sends no GetProxies request, no worker sends a batch-claim request, and
\* no session sends a doInit, doSpin or doCollect request.
C1_NoNewWorkAfterShutdown ==
  [][rootCtxDone =>
       /\ (mainPc' \in {"getProxies", "getProxiesWait"} => mainPc' = mainPc)
       /\ \A w \in Workers :
            /\ (wpc'[w] = "batchWait" => wpc[w] = "batchWait")
            /\ \A u \in Units :
                 upc'[w][u] \in ProtocolWait => upc'[w][u] = upc[w][u]]_vars

\* C1 witness: rootCtx is cancelled while one worker is about to call
\* GetBatchLink and a session of another is about to send an act or advance.
C1_Witness ==
  /\ rootCtxDone
  /\ \E w \in Workers : wpc[w] = "callBatch"
  /\ \E w \in Workers, u \in Units : upc[w][u] \in {"init", "spin", "collect"}

\* C2: after the shutdown signal every worker and every per-unit goroutine of
\* the round ends, the barrier is passed and Run returns (every call in flight
\* returns, every goroutine is scheduled).
C2_ShutdownLeadsToReturn ==
  rootCtxDone ~>
    (/\ mainPc = "returned"
     /\ \A w \in Workers : ~Running(w)
     /\ \A w \in Workers, u \in Units : upc[w][u] \in {"none", "done"})

\* C2 witness: the signal arrives while a worker waits for its units and a
\* session has a protocol request in flight.
C2_Witness ==
  /\ rootCtxDone
  /\ mainPc = "wgWait"
  /\ \E w \in Workers : wpc[w] = "respWait" /\ \E u \in Units : upc[w][u] \in ProtocolWait

\* C3: the round loop ends only on cancellation: Run has returned only if the
\* shutdown signal occurred.
C3_ReturnsOnlyOnShutdown ==
  mainPc = "returned" => rootCtxDone

\* C4: when GetProxies fails (directory unreachable or error reply) and no
\* shutdown was requested, no worker is spawned and Run goes on to the
\* inter-round delay (from which the next round starts).
C4_FetchFailureBacksOff ==
  [][(/\ mainPc = "getProxiesWait"
      /\ mainPc' # "getProxiesWait"
      /\ fetchOutcome' \in {"transportErr", "deadline", "non2xx"}
      /\ ~rootCtxDone')
       => (mainPc' = "fetchErrDelay" /\ \A w \in Workers : wpc'[w] = wpc[w])]_vars

C6_BatchErrorQuarantines ==
  \A w \in Workers :
    batchOutcome[w] \in {"err", "deadline"} =>
      /\ shouldBlockProxy[w]
      /\ wpc[w] \in {"block", "blockWait", "done"}
      /\ responses[w] = <<>>
      /\ \A u \in Units : upc[w][u] = "none"
      /\ (wpc[w] = "done" /\ ~rootCtxDone => w \in blockCalls)

\* C6 witness: a worker ended after a failed batch call and its Block request.
C6_Witness ==
  \E w \in Workers :
    /\ batchOutcome[w] = "err" /\ wpc[w] = "done"
    /\ ~rootCtxDone /\ w \in blockCalls

\* C7 as stated: a Block request is sent only when every other worker of the
\* round has completed.
C7_BlockAfterAllWorkers ==
  \A w \in Workers :
    wpc[w] = "blockWait" => \A v \in Workers \ {w} : ~Running(v)

\* C7 as amended: a Block request is sent by the proxy's own worker, after its
\* batch call failed or all its per-unit goroutines finished, while the worker
\* still runs and so before the barrier is passed; other workers may still run.
C7_BlockBeforeBarrier ==
  \A w \in Workers :
    /\ wpc[w] = "blockWait" =>
         /\ shouldBlockProxy[w]
         /\ w \in blockCalls
         /\ mainPc \in {"spawn", "wgWait"}
         /\ wg > 0
         /\ responseWg[w] = 0
         /\ \A u \in Units : upc[w][u] \in {"none", "done"}
    /\ w \in blockCalls => wpc[w] \in {"blockWait", "done"}

\* C7 witness: a Block request is in flight while another worker still runs.
C7_Witness ==
  \E w, v \in Workers :
    /\ w # v
    /\ wpc[w] = "blockWait"
    /\ wpc[v] \in {"batchWait", "respWait"}

\* C8: at every moment at most MaxConcurrent workers hold a permit, whatever
\* number of proxies the directory returned.
C8_CeilingRespected ==
  /\ Cardinality({w \in Workers : wpc[w] \in Holding}) <= MaxConcurrent
  /\ sem = Cardinality({w \in Workers : wpc[w] \in Holding})

\* C8 witness: the directory returned more proxies than the ceiling and
\* MaxConcurrent workers hold a permit.
C8_Witness ==
  /\ proxiesResp > MaxConcurrent
  /\ Cardinality({w \in Workers : wpc[w] \in Holding}) = MaxConcurrent

\* C9: the index and counter of every act or advance request are those of the
\* reply before it (initResData), plus one.
C9_ClockThreading ==
  \A w \in Workers : \A u \in Units :
    upc[w][u] \in {"spinWait", "collectWait"} =>
      /\ sess[w][u].req.index = sess[w][u].data.Index + 1
      /\ sess[w][u].req.counter = sess[w][u].data.Counter + 1

\* C9 witness: an advance request in flight after an act reply that carried
\* index 2 and counter 1.
C9_Witness ==
  \E w \in Workers : \E u \in Units :
    /\ upc[w][u] = "collectWait"
    /\ sess[w][u].data.Index = 2 /\ sess[w][u].data.Counter = 1
    /\ sess[w][u].req.index = 3 /\ sess[w][u].req.counter = 2

\* C10: the index and the counter of each act or advance request are greater
\* than those of the request sent before it in the session.
C10_ClockStrictlyIncreasing ==
  [][\A w \in Workers : \A u \in Units :
       (upc'[w][u] \in {"spinWait", "collectWait"} /\ upc'[w][u] # upc[w][u]) =>
         /\ sess'[w][u].req.index > sess[w][u].req.index
         /\ sess'[w][u].req.counter > sess[w][u].req.counter]_vars

\* C11: a session whose pending action is "s" and whose balance is <= 500 or
\* >= 100000 (both inclusive) sends no further doSpin or doCollect request, and
\* its goroutine ends (through the UpdateUserBalance call).
C11_ThresholdTerminates ==
  /\ [](\A w \in Workers : \A u \in Units :
          (/\ sess[w][u].data.NextAction = "s"
           /\ (sess[w][u].data.Balance <= 500 \/ sess[w][u].data.Balance >= 100000))
            => upc[w][u] \notin {"spin", "spinWait", "collect", "collectWait"})
  /\ ((/\ upc[1][1] \in {"loop", "sleep"}
       /\ sess[1][1].data.NextAction = "s"
       /\ (sess[1][1].data.Balance <= 500 \/ sess[1][1].data.Balance >= 100000))
        ~> upc[1][1] = "done")

\* C11 witness: the balance is exactly 100000 with "s" pending, and the session
\* is in its UpdateUserBalance call.
C11_Witness ==
  /\ upc[1][1] = "updateWait"
  /\ sess[1][1].data.NextAction = "s" /\ sess[1][1].data.Balance = 100000
  /\ sess[1][1].req.kind = "updateBalance"

\* C12: a session whose last reply carried a next action other than "s" and
\* "c" (an empty one included) stops: its goroutine ends.
C12_OtherActionStops ==
  (/\ upc[1][1] \in {"loop", "sleep"}
   /\ sess[1][1].data.NextAction \notin {"s", "c"})
    ~> upc[1][1] = "done"

\* C13: without a shutdown, every round that spawned its workers passes the
\* barrier: the main loop leaves wg.Wait() for the inter-round delay (every
\* call returns, every goroutine is scheduled).
C13_RoundPassesBarrier ==
  mainPc = "wgWait" ~> (mainPc = "roundDelay" \/ rootCtxDone)

\* C14: a session that ends through the balance threshold has sent exactly one
\* UpdateUserBalance request, with its unit's id and the balance that reached
\* the threshold; no session sends a second one, and after a failed
\* UpdateUserBalance the goroutine ends without another.
C14_OneBalanceReport ==
  \A w \in Workers : \A u \in Units :
    /\ UpdatesOf(w, u) <= 1
    /\ UpdatesOf(w, u) = 1 => upc[w][u] \in {"updateWait", "done"}
    /\ upc[w][u] = "updateWait" =>
         /\ sess[w][u].data.NextAction = "s"
         /\ (sess[w][u].data.Balance <= 500 \/ sess[w][u].data.Balance >= 100000)
         /\ updateCalls \cap {c \in updateCalls : c.w = w /\ c.u = u}
              = {[w |-> w, u |-> u, balance |-> sess[w][u].data.Balance, n |-> 1]}
    /\ unitLog[w][u] \in {"threshold reached, stopping loop",
                          "error on update user balance"} => UpdatesOf(w, u) = 1

\* C14 witness: the UpdateUserBalance call of a session failed (its deadline
\* passed) and the goroutine has ended, one request sent.
C14_Witness ==
  /\ upc[1][1] = "done"
  /\ unitLog[1][1] = "error on update user balance"
  /\ UpdatesOf(1, 1) = 1
  /\ ~rootCtxDone

\* C15: a failure of one unit's session (establish, init, act, advance or
\* balance report) stops neither the other units of the batch nor the worker's
\* classification: a worker that has ended after a successful batch call has
\* gone through every unit and has classified its proxy on all of them.
C15_FailureStaysInUnit ==
  \A w \in Workers :
    (batchOutcome[w] = "ok" /\ wpc[w] = "done" /\ ~rootCtxDone) =>
      /\ \A u \in 1..Total(w) : upc[w][u] = "done"
      /\ shouldBlockProxy[w] <=> (Total(w) > 0 /\ 2 * Failed(w) >= Total(w))
      /\ shouldBlockProxy[w] => w \in blockCalls

\* C16: after a reply that lacks an expected field (index, counter, balance,
\* tw or na) the unit is aborted: its session sends no further doSpin or
\* doCollect request and no UpdateUserBalance request.
C16_AbsentFieldAborts ==
  \A w \in Workers : \A u \in Units :
    sess[w][u].absent =>
      upc[w][u] \notin {"spin", "spinWait", "collect", "collectWait",
                        "update", "updateWait"}

\* C17: after a failed doInit, doSpin or doCollect the session is over: the
\* goroutine has ended, with no request in flight, no retry and no
\* UpdateUserBalance request for the unit.
C17_RequestFailureAborts ==
  \A w \in Workers : \A u \in Units :
    unitLog[w][u] \in {"error on init game", "error on spin game", "error on collect"} =>
      /\ upc[w][u] = "done"
      /\ sess[w][u].req.kind = "none"
      /\ UpdatesOf(w, u) = 0

\* C17 witness: a doSpin failed with no shutdown requested, and the goroutine
\* has ended.
C17_Witness ==
  /\ unitLog[1][1] = "error on spin game"
  /\ upc[1][1] = "done"
  /\ ~rootCtxDone

\* C18: a unit whose establish request brought no redirect is skipped: no
\* doInit, doSpin, doCollect or UpdateUserBalance request is sent for it, and
\* its worker still goes through the other units of the batch and classifies
\* its proxy on all of them.
C18_NoRedirectSkipsUnit ==
  \A w \in Workers : \A u \in Units :
    unitLog[w][u] = "error on load game: sessionData is nil" =>
      /\ upc[w][u] = "done"
      /\ sess[w][u].req.kind = "none"
      /\ UpdatesOf(w, u) = 0
      /\ (wpc[w] = "done" /\ ~rootCtxDone) =>
           /\ \A v \in 1..Total(w) : upc[w][v] = "done"
           /\ shouldBlockProxy[w] <=> (Total(w) > 0 /\ 2 * Failed(w) >= Total(w))

\* C19: a GetProxies reply that is not 2xx is a failed fetch: Run spawns no
\* worker and goes to the delay before the next attempt (or returns, on a
\* shutdown during that delay).
C19_ErrorReplyIsFailure ==
  fetchOutcome = "non2xx" =>
    /\ mainPc \in {"fetchErrDelay", "loopCheck", "getProxies", "returned"}
    /\ \A w \in Workers : ~Running(w)

\* C20 as stated: when a worker computes its failure rate, every per-unit
\* goroutine has finished and failedCount is the number of returned units
\* with status=false.
C20_FailedCounterExact ==
  [][\A w \in Workers :
       (wpc[w] = "respWait" /\ wpc'[w] \in {"block", "done"}) =>
         /\ \A u \in 1..Total(w) : upc[w][u] = "done"
         /\ failedCount[w] = Failed(w)]_vars

\* C20 as amended: when a worker computes its failure rate, every per-unit
\* goroutine has finished and failedCount counts, once each, the returned
\* units with status=false whose goroutine passed its shutdown check: all of
\* them when no shutdown has been requested, never more.
C20_FailedCounterUnlessShutdown ==
  [][\A w \in Workers :
       (wpc[w] = "respWait" /\ wpc'[w] \in {"block", "done"}) =>
         /\ \A u \in 1..Total(w) : upc[w][u] = "done"
         /\ failedCount[w] <= Failed(w)
         /\ (~rootCtxDone => failedCount[w] = Failed(w))
         /\ (failedCount[w] < Failed(w) => rootCtxDone)]_vars

\* C20 witness: two units, one of them failed and one with a session, were
\* counted by their goroutines and the worker has classified its proxy.
C20_Witness ==
  /\ Total(1) = 2 /\ Failed(1) = 1 /\ failedCount[1] = 1
  /\ \E u \in 1..2 : responses[1][u].link /\ unitLog[1][u] # ""
  /\ wpc[1] = "block"
  /\ ~rootCtxDone

\* C21: the wager computed in an iteration depends on the balance only:
\* 600 in (10000, 30000], 800 in (30000, 50000], 1000 in (50000, 100000], 400
\* for every other balance (so 800 at 35000 and 400 at 500), and the c of a
\* doSpin request is that wager divided by 20.
C21_WagerTiers ==
  \A w \in Workers : \A u \in Units :
    LET b == sess[w][u].data.Balance
        a == sess[w][u].amount
    IN /\ a # 0 =>
            /\ (b > 10000 /\ b <= 30000) => a = 600
            /\ (b > 30000 /\ b <= 50000) => a = 800
            /\ (b > 50000 /\ b <= 100000) => a = 1000
            /\ (b <= 10000 \/ b > 100000) => a = 400
            /\ b = 35000 => a = 800
            /\ b = 500 => a = 400
       /\ upc[w][u] \in {"spin", "spinWait"} => a # 0
       /\ upc[w][u] = "spinWait" => sess[w][u].req.c * 20 = a

\* C21 witness: a doSpin request in flight at balance 35000 carries c = 40.
C21_Witness ==
  /\ upc[1][1] = "spinWait"
  /\ sess[1][1].data.Balance = 35000
  /\ sess[1][1].amount = 800
  /\ sess[1][1].req.c = 40

\* C22 as stated: the wager is monotonic over all balances: a balance not
\* above the current one never has a larger wager, one not below it never a
\* smaller one.
C22_WagerMonotonic ==
  \A w \in Workers : \A u \in Units :
    sess[w][u].amount # 0 =>
      \A b \in BalanceValues :
        /\ b <= sess[w][u].data.Balance => Amount(b) <= sess[w][u].amount
        /\ b >= sess[w][u].data.Balance => Amount(b) >= sess[w][u].amount

\* C22 as amended: the wager is monotonic over the balances up to 100000;
\* above 100000 the computed wager is the base one again, and no doSpin is
\* ever sent at a balance of 100000 or more.
C22_WagerMonotonicInBand ==
  \A w \in Workers : \A u \in Units :
    /\ (sess[w][u].amount # 0 /\ sess[w][u].data.Balance <= 100000) =>
         \A b \in BalanceValues :
           /\ b <= sess[w][u].data.Balance => Amount(b) <= sess[w][u].amount
           /\ (b >= sess[w][u].data.Balance /\ b <= 100000)
                => Amount(b) >= sess[w][u].amount
    /\ (sess[w][u].amount # 0 /\ sess[w][u].data.Balance > 100000) =>
         sess[w][u].amount = 400
    /\ upc[w][u] \in {"spin", "spinWait"} => sess[w][u].data.Balance < 100000

\* C22 witness: the wager was computed at the top of the band, balance
\* 100000 with a collect pending.
C22_Witness ==
  /\ sess[1][1].data.Balance = 100000
  /\ sess[1][1].amount = 1000
  /\ upc[1][1] = "collect"

\* C23: the rotation is a pure round-robin: the cursor starts at the first
\* entry, every call returns the entry at the cursor and moves the cursor to
\* the next position, the one after the last being the first; so N successive
\* calls return the positions 0..N-1 in order and the next one position 0.
C23_RoundRobin ==
  /\ userAgentIndex = 0
  /\ ua = -1
  /\ [][\A w \in Workers :
          (wpc[w] = "callBatch" /\ wpc'[w] # "callBatch") =>
            /\ ua' = IF ua = NumUserAgents - 1 THEN 0 ELSE ua + 1
            /\ ua' = userAgentIndex
            /\ userAgentIndex' = IF userAgentIndex = NumUserAgents - 1
                                   THEN 0 ELSE userAgentIndex + 1]_vars

\* C23 witness: both workers of a round have made their call and the later
\* one got the first entry, so that call was the (N+1)-th or a later one.
C23_Witness ==
  /\ NumUserAgents = 2
  /\ ua = 0
  /\ userAgentIndex = 1
  /\ wpc[1] = "batchWait"
  /\ wpc[2] = "batchWait"

\* C25: a GetProxies call that succeeds with zero proxies is no error: Run
\* goes to the delay, with no worker spawned and no batch-claim or Block call
\* made in that round; the delay ends early on shutdown only, and after it
\* Run is back at the top of the loop, which fetches proxies again.
C25_EmptyResultDelaysAndRetries ==
  /\ [][(mainPc = "getProxiesWait" /\ mainPc' # "getProxiesWait"
           /\ fetchOutcome' = "ok" /\ proxiesResp' = 0) =>
          mainPc' = "emptyDelay"]_vars
  /\ [][mainPc = "emptyDelay" =>
          /\ \A w \in Workers : wpc[w] \in {"idle", "done"}
          /\ \A w \in Workers : \A u \in Units : upc[w][u] \in {"none", "done"}
          /\ wg = 0
          /\ wpc' = wpc /\ upc' = upc /\ blockCalls' = blockCalls
          /\ wg' = wg /\ spawnI' = spawnI
          /\ \/ mainPc' = "emptyDelay"
             \/ mainPc' = "loopCheck"
             \/ rootCtxDone /\ mainPc' = "returned"]_vars
  /\ [][(mainPc = "loopCheck" /\ mainPc' # "loopCheck") =>
          \/ mainPc' = "getProxies"
          \/ rootCtxDone /\ mainPc' = "returned"]_vars

\* C25 witness: a round after one that ran a worker got no proxy, its delay
\* has elapsed and Run starts the next fetch.
C25_Witness ==
  /\ mainPc = "getProxies"
  /\ fetchOutcome = "ok"
  /\ proxiesResp = 0
  /\ \E w \in Workers : wpc[w] = "done"
  /\ ~rootCtxDone

\* C26: a failed Block call is only logged: whatever the outcome of the call,
\* the worker ends when it returns (releasing its permit and counting down the
\* barrier) without another directory call, so a worker sends at most one
\* Block request in a round, and the barrier is passed.
C26_FailedBlockOnlyLogged ==
  /\ [](\A w \in Workers : blockOutcome[w] # "none" => wpc[w] = "done")
  /\ [][\A w \in Workers :
          (wpc[w] = "blockWait" /\ wpc'[w] # "blockWait") =>
            /\ wpc'[w] = "done"
            /\ wg' = wg - 1
            /\ sem' = sem - 1
            /\ blockCalls' = blockCalls]_vars
  /\ [][\A w \in Workers :
          (wpc[w] # "blockWait" /\ wpc'[w] = "blockWait") =>
            w \notin blockCalls]_vars

\* C26 witness: two Block calls of a round failed, one on its deadline and one
\* with an error reply, and the round passed the barrier.
C26_Witness ==
  /\ ~rootCtxDone
  /\ mainPc = "roundDelay"
  /\ blockCalls = {1, 2}
  /\ blockOutcome[1] = "deadline"
  /\ blockOutcome[2] = "non2xx"

\* C27 as stated: each unit of a batch is consumed once: the goroutine of a
\* unit with a link sends exactly one establish request, so it does not end
\* before sending it, and goes on from there without starting over; the
\* goroutine of a unit without a link ends without a session.
C27_ExactlyOneSession ==
  [][\A u \in Units :
       /\ (upc[1][u] # "loadWait" /\ upc'[1][u] = "loadWait") =>
            upc[1][u] = "load" /\ responses[1][u].link
       /\ (upc[1][u] # "load" /\ upc'[1][u] = "load") =>
            upc[1][u] = "start" /\ responses[1][u].link
       /\ upc[1][u] # "start" => upc'[1][u] # "start"
       /\ upc[1][u] = "done" => upc'[1][u] = "done"
       /\ ~responses[1][u].link =>
            upc'[1][u] \in {"start", "done"} /\ sess'[1][u] = NoSess
       /\ (responses[1][u].link /\ upc[1][u] # "done" /\ upc'[1][u] = "done") =>
            upc[1][u] \notin {"start", "load"}]_vars

\* C27 as amended: each unit of a batch is consumed at most once: the
\* goroutine of a unit with a link sends one establish request, or none when
\* shutdown was requested before it got there, and never starts over once it
\* has ended or failed; the goroutine of a unit without a link ends without a
\* session.
C27_AtMostOneSession ==
  [][\A u \in Units :
       /\ (upc[1][u] # "loadWait" /\ upc'[1][u] = "loadWait") =>
            upc[1][u] = "load" /\ responses[1][u].link
       /\ (upc[1][u] # "load" /\ upc'[1][u] = "load") =>
            upc[1][u] = "start" /\ responses[1][u].link
       /\ upc[1][u] # "start" => upc'[1][u] # "start"
       /\ upc[1][u] = "done" => upc'[1][u] = "done"
       /\ ~responses[1][u].link =>
            upc'[1][u] \in {"start", "done"} /\ sess'[1][u] = NoSess
       /\ (responses[1][u].link /\ upc[1][u] # "done" /\ upc'[1][u] = "done"
             /\ upc[1][u] \in {"start", "load"}) => rootCtxDone
       /\ (responses[1][u].link /\ ~rootCtxDone /\ upc[1][u] = "load"
             /\ upc'[1][u] # "load") =>
            upc'[1][u] = "loadWait" /\ sess'[1][u].req.kind = "load"]_vars

\* C27 witness: of the two units of a batch, the one with a link had its
\* establish request fail and ended, the one without a link ended without a
\* session, and the worker has gone on.
C27_Witness ==
  /\ ~rootCtxDone
  /\ responses[1][1].link /\ ~responses[1][2].link
  /\ upc[1][1] = "done" /\ unitLog[1][1] = "error on load game"
  /\ upc[1][2] = "done" /\ unitLog[1][2] = ""
  /\ wpc[1] # "respWait"

\* C28: the permits in use are those of the workers between their Acquire
\* and their return, whatever the path on which a worker returns; once the
\* round barrier is passed every permit of the round's semaphore is free.
C28_PermitsReleased ==
  /\ sem = Cardinality({w \in Workers : wpc[w] \in Holding})
  /\ mainPc = "roundDelay" =>
       /\ sem = 0
       /\ \A w \in Workers : wpc[w] \notin Holding

\* C28 witness: the barrier is passed after one worker returned from a Block
\* call cancelled by shutdown and the other from a batch call cancelled by it.
C28_Witness ==
  /\ mainPc = "roundDelay"
  /\ sem = 0
  /\ wpc[1] = "done" /\ batchOutcome[1] = "deadline" /\ blockOutcome[1] = "canceled"
  /\ wpc[2] = "done" /\ batchOutcome[2] = "canceled"

\* C29: rounds never overlap: outside the spawning loop and the barrier wait
\* of a round no worker and no per-unit goroutine is running; the barrier is
\* left only with every worker counted down, for the inter-round delay, and
\* the top of the loop, from which GetProxies is called, is entered only from
\* a delay.
C29_RoundsNeverOverlap ==
  /\ [](mainPc \notin {"spawn", "wgWait"} =>
          /\ \A w \in Workers : ~Running(w)
          /\ \A w \in Workers : \A u \in Units : upc[w][u] \in {"none", "done"})
  /\ [][(mainPc = "wgWait" /\ mainPc' # "wgWait") =>
          wg = 0 /\ mainPc' = "roundDelay"]_vars
  /\ [][(mainPc # "loopCheck" /\ mainPc' = "loopCheck") =>
          mainPc \in {"roundDelay", "emptyDelay", "fetchErrDelay"}]_vars
  /\ [][(mainPc # "getProxies" /\ mainPc' = "getProxies") =>
          mainPc = "loopCheck"]_vars

\* C29 witness: the GetProxies call of the next round is in flight after a
\* round in which two workers ran, one of them with a session.
C29_Witness ==
  /\ ~rootCtxDone
  /\ mainPc = "getProxiesWait"
  /\ wpc[1] = "done" /\ wpc[2] = "done"
  /\ \E w \in Workers : \E u \in Units :
       upc[w][u] = "done" /\ responses[w][u].link /\ unitLog[w][u] # ""

\* C30: a round has min(N, number of returned proxies) workers: the spawning
\* loop starts one worker for each of the first entries of the reply, in
\* order, each entry once, and stops at the ceiling or at the end of the
\* reply (worker w is the goroutine started with entry w of the reply).
C30_OneWorkerPerLease ==
  /\ [](mainPc = "spawn" =>
          {w \in Workers : wpc[w] # "idle"} = 1..spawnI)
  /\ [](mainPc = "wgWait" =>
          {w \in Workers : wpc[w] # "idle"} =
            1..(IF proxiesResp < MaxConcurrent THEN proxiesResp ELSE MaxConcurrent))
  /\ [][\A w \in Workers :
          (wpc[w] # "acquire" /\ wpc'[w] = "acquire") =>
            /\ wpc[w] = "idle"
            /\ mainPc = "spawn"
            /\ w = spawnI + 1
            /\ spawnI' = w
            /\ w <= proxiesResp /\ w <= MaxConcurrent
            /\ wg' = wg + 1]_vars

\* C30 witness: the reply had more proxies than the ceiling, and the round
\* runs one worker for each of the first N of them.
C30_Witness ==
  /\ mainPc = "wgWait"
  /\ proxiesResp = MaxConcurrent + 1
  /\ \A w \in 1..MaxConcurrent : Running(w)
  /\ wpc[MaxConcurrent + 1] = "idle"

\* C32: the threshold is looked at only with "s" pending: a balance report is
\* under way only for a reply that asked for "s" with the balance outside the
\* band; with "c" pending, at the top of an iteration or right after a spin,
\* the session goes to the collect request whatever the balance is, and sends
\* it, without a balance report and without ending.
C32_ThresholdOnlyWhenAct ==
  /\ [](upc[1][1] \in {"update", "updateWait"} =>
          /\ sess[1][1].data.NextAction = "s"
          /\ (sess[1][1].data.Balance <= 500 \/ sess[1][1].data.Balance >= 100000))
  /\ [][(/\ upc[1][1] \in {"loop", "spinWait"}
         /\ upc'[1][1] \notin {upc[1][1], "done"}
         /\ sess'[1][1].data.NextAction = "c") =>
          upc'[1][1] = "collect" /\ updateCalls' = updateCalls]_vars
  /\ [][(upc[1][1] = "collect" /\ ~rootCtxDone /\ upc'[1][1] # "collect") =>
          /\ upc'[1][1] = "collectWait"
          /\ sess'[1][1].req.kind = "doCollect"
          /\ updateCalls' = updateCalls]_vars

\* C32 witness: the collect request is in flight with the balance at the
\* upper threshold, and no balance report was made.
C32_Witness ==
  /\ upc[1][1] = "collectWait"
  /\ sess[1][1].req.kind = "doCollect"
  /\ sess[1][1].data.NextAction = "c"
  /\ sess[1][1].data.Balance >= 100000
  /\ updateCalls = {}

\* C35: whichever worker calls GetNextUserAgent next, the cursor stays within
\* the list, the call gets the position at the cursor, which is not the one
\* the call before it got but the next one, and the cursor moves on by one
\* modulo the list length; so k <= N calls in a row get k distinct positions.
C35_RotationUnderConcurrency ==
  /\ [](/\ userAgentIndex \in 0..(NumUserAgents - 1)
        /\ ua \in -1..(NumUserAgents - 1)
        /\ ua # -1 => userAgentIndex = (ua + 1) % NumUserAgents)
  /\ [][\A w \in Workers :
          (wpc[w] = "callBatch" /\ wpc'[w] # "callBatch") =>
            /\ userAgentIndex' = (userAgentIndex + 1) % NumUserAgents
            /\ ua' = userAgentIndex
            /\ ua' # ua
            /\ ua # -1 => ua' = (ua + 1) % NumUserAgents]_vars

\* C35 witness: two workers were ready to call at the same time; the second
\* one called first and got the next position, the first one has yet to call.
C35_Witness ==
  /\ wpc[1] = "callBatch"
  /\ wpc[2] = "batchWait"
  /\ ua # -1
  /\ userAgentIndex = (ua + 1) % NumUserAgents

\* C36: after a successful batch call the quarantine decision is a function
\* of the status flags of the returned units: failedCount moves only when a
\* goroutine counts its unit's status=false, whatever its session does later;
\* a Block request is sent only if the units with status=false are at least
\* half of the batch, and, shutdown apart, it is sent whenever they are.
C36_DecisionIgnoresSessions ==
  /\ [][failedCount' # failedCount =>
          \E u \in Units :
            /\ upc[1][u] = "start" /\ upc'[1][u] # "start"
            /\ ~responses[1][u].status
            /\ failedCount'[1] = failedCount[1] + 1]_vars
  /\ [][(wpc[1] = "respWait" /\ wpc'[1] # "respWait" /\ ~rootCtxDone) =>
          shouldBlockProxy'[1] = ShouldQuarantine(Total(1), Failed(1))]_vars
  /\ [](1 \in blockCalls => ShouldQuarantine(Total(1), Failed(1)))
  /\ []((wpc[1] = "done" /\ ~rootCtxDone) =>
          (1 \in blockCalls <=> ShouldQuarantine(Total(1), Failed(1))))

\* C36 witness: both units had status=true and a link, both sessions failed
\* (one at the establish request, one at doInit), and the worker ended
\* without a Block call.
C36_Witness ==
  /\ ~rootCtxDone
  /\ \A u \in 1..2 : responses[1][u].status /\ responses[1][u].link
  /\ unitLog[1][1] = "error on load game"
  /\ unitLog[1][2] = "error on init game"
  /\ wpc[1] = "done"
  /\ blockCalls = {}

SameKeyOthers ==
  {u.id : u \in {v \in dd.users : /\ v.id > NilObjectID
                                  /\ v.id # dd.user.id
                                  /\ v.app_code = dd.user.app_code
                                  /\ v.username = dd.user.username}}

C33_AllOthersReported ==
  dd.pc = "found" =>
    {ObjectIDFromHex(dd.duplicateIDs[k]) : k \in 1..Len(dd.duplicateIDs)} = SameKeyOthers

\* C34: when Run ends with "no more users found" and no repository call
\* failed, no two remaining records share (app_code, username), and of every
\* pair that shared them at the start at least one record remains.
SameKey(u, v) == u.app_code = v.app_code /\ u.username = v.username

C34_DeletionComplete ==
  (dd.pc = "done" /\ dd.ended = "no more users found" /\ ~dd.failed) =>
    /\ \A u, v \in dd.users : SameKey(u, v) => u = v
    /\ \A u, v \in dd.initial :
         (u # v /\ SameKey(u, v)) => \E r \in dd.users : SameKey(r, u)

\* C37: CheckProxies runs at most 10 proxy checks at a time, and whenever it
\* returns, normally or on cancellation, all 10 permits of its semaphore are
\* free again: no permit leaks from one cycle to the next.
C37_PermitsBoundedAndFreed ==
  /\ [](cyc.checking <= SemPermits /\ cyc.sem <= SemPermits)
  /\ [][CheckProxiesReturns => cyc'.sem = 0 /\ cyc'.checking = 0]_vars

C37_Witness ==
  /\ cyc.cycles = 2
  /\ cyc.pc = "acquire"
  /\ cyc.checking = SemPermits
  /\ cyc.sem = SemPermits

\* C38 (as stated): once ctx is cancelled, CheckProxies starts no further
\* proxy check, waits for the checks already started, and returns the
\* context's error (wrapped or not); the interval loop then makes no further
\* CheckProxies call.
C38_GracefulShutdownAsStated ==
  [][/\ (cyc.ctxDone /\ cyc.pc = "spawn") => cyc'.pc = "spawn"
     /\ CheckProxiesReturns => cyc'.wg = 0 /\ cyc'.checking = 0 /\ cyc'.released = 0
     /\ (CheckProxiesReturns /\ cyc.ctxDone) => cyc'.ret \in CtxErrors
     /\ (cyc.ctxDone /\ cyc.pc = "select") => cyc'.pc # "entry"]_vars

\* C38 (amended): after the cancellation at most one further check is
\* started (the one whose cancellation test had already passed); CheckProxies
\* returns only when every check it started has finished; a return after the
\* cancellation carries the context's error unless every proxy of the list
\* had been started, when it is nil; and a CheckProxies call the interval
\* loop makes after the cancellation returns ctx.Err() at once, without a
\* request and without a check.
C38_GracefulShutdown ==
  /\ [](cyc.lateStarts <= 1)
  /\ [][/\ CheckProxiesReturns => cyc'.wg = 0 /\ cyc'.checking = 0 /\ cyc'.released = 0
        /\ (CheckProxiesReturns /\ cyc.ctxDone) =>
             \/ cyc'.ret \in CtxErrors
             \/ cyc'.ret = "nil" /\ cyc.i = cyc.n
        /\ (cyc.ctxDone /\ cyc.pc = "entry" /\ cyc'.pc # "entry") =>
             cyc' = [cyc EXCEPT !.pc = "select", !.ret = "ctx"]]_vars

C38_Witness ==
  /\ cyc.pc = "exited"
  /\ cyc.ctxDone
  /\ cyc.ret = "ctx"
  /\ 0 < cyc.i
  /\ cyc.i < cyc.n

\* C39: CheckDomains always terminates; with a worker count of at least 1 it
\* returns exactly one CheckResult per input domain (the same multiset of
\* domains, in any order), and with a worker count of 0 it returns an empty
\* result without checking any domain.
C39_OneResultPerDomain ==
  /\ <>(chk.pc = "returned")
  /\ [](chk.pc = "returned" =>
          IF chk.workers >= 1
            THEN /\ Len(chk.allResults) = Len(chk.domains)
                 /\ \A d \in Domains : ResultCount(d) = InputCount(d)
            ELSE chk.allResults = <<>> /\ chk.checks = 0)

C39_Witness ==
  /\ chk.pc = "returned"
  /\ chk.workers = 2
  /\ Len(chk.domains) = 3
  /\ chk.domains[1] = chk.domains[3]
  /\ chk.allResults[1].Domain # chk.domains[1]
====
